---- MODULE Spec2Model ----
(***************************************************************************)
(* The offline pipeline of air-writing-data: the signal normalizer         *)
(* (PreProcessor.py) and the windowed feature extractor                    *)
(* (recordings/featureExtractor.py) with their batch drivers.              *)
(*                                                                         *)
(* A CSV cell is modelled by the integer h of its two-decimal text h/100   *)
(* ("1.93" is 193).  The normalizer works on Python floats, modelled bit   *)
(* for bit as IEEE-754 binary64 values (round to nearest, ties to even).   *)
(***************************************************************************)
EXTENDS Integers, Sequences, FiniteSets, TLC

(***************************************************************************)
(* Natural numbers of any size: little-endian sequences of limbs.          *)
(***************************************************************************)
LimbBits == 14
LimbBase == 2^LimbBits

Max(a, b) == IF a >= b THEN a ELSE b
Min(a, b) == IF a <= b THEN a ELSE b

RECURSIVE Carry(_, _)
Carry(w, c) ==
    IF w = <<>>
    THEN IF c = 0 THEN <<>> ELSE <<c % LimbBase>> \o Carry(<<>>, c \div LimbBase)
    ELSE LET t == Head(w) + c
         IN  <<t % LimbBase>> \o Carry(Tail(w), t \div LimbBase)

RECURSIVE Trim(_)
Trim(a) ==
    IF a = <<>> THEN <<>>
    ELSE IF a[Len(a)] = 0 THEN Trim(SubSeq(a, 1, Len(a) - 1)) ELSE a

Limb(a, i) == IF i >= 1 /\ i <= Len(a) THEN a[i] ELSE 0

BigFromNat(n) == Carry(<<>>, n)

BigAdd(a, b) ==
    Trim(Carry([i \in 1..Max(Len(a), Len(b)) |-> Limb(a, i) + Limb(b, i)], 0))

RECURSIVE Borrow(_, _, _, _)
Borrow(a, b, i, br) ==
    IF i > Len(a) THEN <<>>
    ELSE LET t == a[i] - Limb(b, i) - br
         IN  IF t < 0 THEN <<t + LimbBase>> \o Borrow(a, b, i + 1, 1)
                      ELSE <<t>> \o Borrow(a, b, i + 1, 0)

\* a - b for a >= b
BigSub(a, b) == Trim(Borrow(a, b, 1, 0))

RECURSIVE SumTo(_, _, _)
SumTo(f, lo, hi) == IF lo > hi THEN 0 ELSE f[lo] + SumTo(f, lo + 1, hi)

BigMul(a, b) ==
    IF a = <<>> \/ b = <<>> THEN <<>>
    ELSE LET col(k) ==
                 LET lo == Max(1, k + 1 - Len(b))
                     hi == Min(Len(a), k)
                 IN  SumTo([i \in lo..hi |-> a[i] * b[k + 1 - i]], lo, hi)
         IN  Trim(Carry([k \in 1..(Len(a) + Len(b) - 1) |-> col(k)], 0))

RECURSIVE CmpFrom(_, _, _)
CmpFrom(a, b, i) ==
    IF i = 0 THEN 0
    ELSE IF Limb(a, i) > Limb(b, i) THEN 1
    ELSE IF Limb(a, i) < Limb(b, i) THEN -1
    ELSE CmpFrom(a, b, i - 1)

\* -1, 0, 1 as a < b, a = b, a > b
BigCmp(a, b) == CmpFrom(a, b, Max(Len(a), Len(b)))

RECURSIVE NatBitLen(_)
NatBitLen(x) == IF x = 0 THEN 0 ELSE 1 + NatBitLen(x \div 2)

BitLen(a) ==
    LET t == Trim(a)
    IN  IF t = <<>> THEN 0 ELSE LimbBits * (Len(t) - 1) + NatBitLen(t[Len(t)])

ShiftLeft(a, k) ==
    LET q == k \div LimbBits
        r == k % LimbBits
    IN  Trim([i \in 1..q |-> 0] \o Carry([i \in 1..Len(a) |-> a[i] * 2^r], 0))

\* floor(a / 2^k)
ShiftRight(a, k) ==
    LET q == k \div LimbBits
        r == k % LimbBits
    IN  IF q >= Len(a) THEN <<>>
        ELSE Trim([i \in 1..(Len(a) - q) |->
                     (a[i + q] \div 2^r)
                     + (Limb(a, i + q + 1) % 2^r) * 2^(LimbBits - r)])

\* bit j of a, bit 0 the lowest
Bit(a, j) == (Limb(a, j \div LimbBits + 1) \div 2^(j % LimbBits)) % 2

\* bits 0..j-1 of a are all zero
LowZero(a, j) ==
    \A i \in 1..Len(a) :
        /\ i <= j \div LimbBits => a[i] = 0
        /\ i = j \div LimbBits + 1 => a[i] % 2^(j % LimbBits) = 0

RECURSIVE DivFrom(_, _, _, _)
\* short division of a by the one-limb d, from limb i down with remainder r:
\* <<quotient limbs, high first>> and the final remainder
DivFrom(a, d, i, r) ==
    IF i = 0 THEN [q |-> <<>>, r |-> r]
    ELSE LET t    == r * LimbBase + a[i]
             rest == DivFrom(a, d, i - 1, t % d)
         IN  [q |-> rest.q \o <<t \div d>>, r |-> rest.r]

BigDivSmall(a, d) ==
    LET res == DivFrom(a, d, Len(a), 0)
    IN  [q |-> Trim(res.q), r |-> res.r]

(***************************************************************************)
(* Python float: IEEE-754 binary64, value (-1)^sgn * man * 2^exp with      *)
(* 2^52 <= man < 2^53, or zero, or NaN, which has sgn = 2.  The model's    *)
(* inputs stay far from overflow and underflow.                            *)
(***************************************************************************)
MantBits == 53

FZero == [sgn |-> 0, exp |-> 0, man |-> <<>>]
FNaN == [sgn |-> 2, exp |-> 0, man |-> <<>>]

\* (-1)^sgn * (m + s) * 2^e rounded to nearest, ties to even, where
\* 0 < s < 1 when sticky and s = 0 otherwise
RoundToDouble(sgn, m, e, sticky) ==
    LET L == BitLen(m)
    IN  IF L = 0 THEN FZero
        ELSE IF L <= MantBits
        THEN [sgn |-> sgn, exp |-> e - (MantBits - L),
              man |-> ShiftLeft(m, MantBits - L)]
        ELSE LET k     == L - MantBits
                 q     == ShiftRight(m, k)
                 guard == Bit(m, k - 1) = 1
                 st    == sticky \/ ~LowZero(m, k - 1)
                 up    == guard /\ (st \/ Bit(q, 0) = 1)
                 q2    == IF up THEN BigAdd(q, <<1>>) ELSE q
             IN  IF BitLen(q2) > MantBits
                 THEN [sgn |-> sgn, exp |-> e + k + 1, man |-> ShiftRight(q2, 1)]
                 ELSE [sgn |-> sgn, exp |-> e + k, man |-> q2]

FNeg(a) == IF a = FZero \/ a = FNaN THEN a ELSE [a EXCEPT !.sgn = 1 - a.sgn]

FMul(a, b) ==
    IF a = FNaN \/ b = FNaN THEN FNaN
    ELSE IF a = FZero \/ b = FZero THEN FZero
    ELSE RoundToDouble((a.sgn + b.sgn) % 2, BigMul(a.man, b.man),
                       a.exp + b.exp, FALSE)

FAdd(a, b) ==
    IF a = FNaN \/ b = FNaN THEN FNaN
    ELSE IF a = FZero THEN b
    ELSE IF b = FZero THEN a
    ELSE LET e  == Min(a.exp, b.exp)
             ma == ShiftLeft(a.man, a.exp - e)
             mb == ShiftLeft(b.man, b.exp - e)
             c  == BigCmp(ma, mb)
         IN  IF a.sgn = b.sgn THEN RoundToDouble(a.sgn, BigAdd(ma, mb), e, FALSE)
             ELSE IF c = 0 THEN FZero
             ELSE IF c > 0 THEN RoundToDouble(a.sgn, BigSub(ma, mb), e, FALSE)
             ELSE RoundToDouble(b.sgn, BigSub(mb, ma), e, FALSE)

FSub(a, b) == FAdd(a, FNeg(b))

Abs(n) == IF n < 0 THEN -n ELSE n

QuotientShift == 70

\* the float nearest n/d, for integers n and 1 <= d < LimbBase: what a
\* decimal literal and a two-decimal CSV cell parse to
FromRatio(n, d) ==
    LET dv == BigDivSmall(ShiftLeft(BigFromNat(Abs(n)), QuotientShift), d)
    IN  RoundToDouble(IF n < 0 THEN 1 ELSE 0, dv.q, -QuotientShift, dv.r # 0)

FOne == FromRatio(1, 1)

RECURSIVE SeqsUpTo(_, _)
SeqsUpTo(S, n) ==
    IF n = 0 THEN {<<>>}
    ELSE LET shorter == SeqsUpTo(S, n - 1)
         IN  shorter \cup {Append(q, x) : q \in {r \in shorter : Len(r) = n - 1}, x \in S}

(***************************************************************************)
(* Signal normalizer (PreProcessor.py)                                     *)
(***************************************************************************)
\* F applied to the value of e, which is computed once
Bind(e, F(_)) == CHOOSE r \in {F(v) : v \in {e}} : TRUE

\* a raised exception, or a returned value
Raise(e) == [exc |-> e]
Return(v) == [exc |-> "none", val |-> v]

\* default lambda_ = 0.9
DefaultLambda == FromRatio(9, 10)

RECURSIVE Smooth(_, _, _, _)
\* the loop of leaky_integrator from index i (1-based) with smoothed so far
Smooth(signal, lambda_, smoothed, i) ==
    IF i > Len(signal) THEN smoothed
    ELSE Smooth(signal, lambda_,
                Append(smoothed,
                       FAdd(FMul(lambda_, smoothed[i - 1]),
                            FMul(FSub(FOne, lambda_), signal[i]))),
                i + 1)

leaky_integrator(signal, lambda_) ==
    IF Len(signal) = 0 THEN Raise("IndexError")     \* signal.iloc[0]
    ELSE Return(Smooth(signal, lambda_, <<signal[1]>>, 2))

\* scipy.stats.zscore: every element NaN when the input is constant (the
\* standard deviation is 0) or holds a NaN (the mean is NaN), a finite
\* number otherwise.  The finite values are not computed: "num" stands for
\* each.
zscore(a) ==
    IF (\A i \in 1..Len(a) : a[i] = a[1]) \/ (\E i \in 1..Len(a) : a[i] = FNaN)
    THEN [i \in 1..Len(a) |-> "NaN"]
    ELSE [i \in 1..Len(a) |-> "num"]

RequiredColumns == {"acc_x", "acc_y", "acc_z"}

\* an empty CSV cell: read_csv gives NaN for it
NaNCell == 1000000

\* a CSV cell h/100 read as a float
ParseCell(h) == IF h = NaNCell THEN FNaN ELSE FromRatio(h, 100)

\* df[col] as floats
FloatColumn(df, col) == [i \in 1..Len(df.rows) |-> ParseCell(df.rows[i][col])]

preprocess(df) ==
    IF ~(RequiredColumns \subseteq df.columns) THEN Raise("KeyError")
    ELSE Bind([c \in RequiredColumns |->
                 leaky_integrator(FloatColumn(df, c), DefaultLambda)],
              LAMBDA smooth :
         IF smooth["acc_x"].exc # "none" THEN smooth["acc_x"]
         ELSE IF smooth["acc_y"].exc # "none" THEN smooth["acc_y"]
         ELSE IF smooth["acc_z"].exc # "none" THEN smooth["acc_z"]
         ELSE Bind([c \in RequiredColumns |-> zscore(smooth[c].val)],
                   LAMBDA norm :
              Return([columns |-> <<"x_norm", "y_norm", "z_norm">>,
                      rows |-> [i \in 1..Len(df.rows) |->
                                  [x_norm |-> norm["acc_x"][i],
                                   y_norm |-> norm["acc_y"][i],
                                   z_norm |-> norm["acc_z"][i]]]])))

(***************************************************************************)
(* Recordings on disk.  A file is [name, cols, n, content]: its columns,   *)
(* its number of rows and the shape of its samples; Rows gives the cells,  *)
(* whole numbers of hundredths or NaNCell.                                 *)
(***************************************************************************)
\* sample i (0-based) of an axis of the given shape, in hundredths
Sample(shape, i) ==
    CASE shape = "zero"  -> 0
      [] shape = "one"   -> 100
      [] shape = "c193"  -> 193
      [] shape = "ramp"  -> 100 * (i + 1)
      [] shape = "alt"   -> IF i % 2 = 0 THEN 100 ELSE -200
      [] shape = "bump"  -> IF i % 3 = 1 THEN 200 ELSE 0
      [] shape = "hole"  -> IF i % 4 = 1 THEN NaNCell ELSE IF i % 2 = 0 THEN 100 ELSE -200
      [] shape = "wave"  -> IF i % 4 = 1 THEN 157 ELSE IF i % 4 = 3 THEN -31 ELSE 8

\* the axis shapes of each content
Shapes(content) ==
    CASE content = "generic"  -> [acc_x |-> "ramp", acc_y |-> "alt",  acc_z |-> "wave"]
      [] content = "allzero"  -> [acc_x |-> "zero", acc_y |-> "zero", acc_z |-> "zero"]
      [] content = "constx"   -> [acc_x |-> "one",  acc_y |-> "ramp", acc_z |-> "alt"]
      [] content = "zeromag"  -> [acc_x |-> "bump", acc_y |-> "bump", acc_z |-> "bump"]
      [] content = "const193" -> [acc_x |-> "c193", acc_y |-> "wave", acc_z |-> "ramp"]
      [] content = "gap"      -> [acc_x |-> "ramp", acc_y |-> "hole", acc_z |-> "wave"]

Rows(file) ==
    [i \in 1..file.n |->
        [c \in file.cols |->
            IF c \in RequiredColumns THEN Sample(Shapes(file.content)[c], i - 1)
            ELSE i]]

\* pd.read_csv of a readable file
read_csv(file) == [columns |-> file.cols, rows |-> Rows(file)]

\* os.path.splitext of a name kept as [root, ext]; a name that is only
\* ".csv" has no extension
splitext(name) ==
    IF name.root = "" THEN [root |-> name.ext, ext |-> ""] ELSE name

endswith_csv(name) == name.ext = ".csv"

(***************************************************************************)
(* Feature computer (recordings/featureExtractor.py).  A window is a       *)
(* sequence of rows; an axis is the sequence of its cells, in hundredths.  *)
(* A feature value is exact where the feature is a count or a sample (in   *)
(* hundredths), and otherwise Finite, a float whose value is not computed, *)
(* or NaN.  The NaN cases are those of exact arithmetic, which is what     *)
(* numpy computes on the whole-number samples the model feeds, and those   *)
(* of a NaN sample, which every sum it enters turns into NaN and every     *)
(* comparison it enters makes false.                                       *)
(***************************************************************************)
AxisNames == <<"x", "y", "z">>

\* a dict keeps its keys in insertion order: a sequence of [key, value]
Keys(d) == [i \in 1..Len(d) |-> d[i].key]
KeySet(d) == {d[i].key : i \in 1..Len(d)}
Get(d, k) == d[CHOOSE i \in 1..Len(d) : d[i].key = k].value

Item(k, v) == [key |-> k, value |-> v]

\* d.update(other): the keys d has keep their place and take other's value,
\* the keys it lacks follow in other's order
update(d, other) ==
    [i \in 1..Len(d) |->
        IF d[i].key \in KeySet(other)
        THEN Item(d[i].key, Get(other, d[i].key)) ELSE d[i]]
    \o SelectSeq(other, LAMBDA it : it.key \notin KeySet(d))

\* the dict built by the assignments d[key] = value of items, in order: a
\* key stands where it was first assigned and holds what was assigned last
Dict(items) ==
    LET n == Len(items)
        last(i) == CHOOSE j \in i..n :
                      /\ items[j].key = items[i].key
                      /\ \A k \in (j + 1)..n : items[k].key # items[i].key
        marked == [i \in 1..n |->
                     [key |-> items[i].key, value |-> items[last(i)].value,
                      first |-> \A j \in 1..(i - 1) : items[j].key # items[i].key]]
        kept == SelectSeq(marked, LAMBDA it : it.first)
    IN  [i \in 1..Len(kept) |-> Item(kept[i].key, kept[i].value)]

RECURSIVE Flatten(_)
Flatten(ss) == IF ss = <<>> THEN <<>> ELSE Head(ss) \o Flatten(Tail(ss))

SeqRange(a) == {a[i] : i \in 1..Len(a)}
IsConstant(a) == \A i \in 1..Len(a) : a[i] = a[1]
MinOf(a) == CHOOSE m \in SeqRange(a) : \A v \in SeqRange(a) : m <= v
MaxOf(a) == CHOOSE m \in SeqRange(a) : \A v \in SeqRange(a) : m >= v
Negated(a) == [i \in 1..Len(a) |-> IF a[i] = NaNCell THEN NaNCell ELSE -a[i]]

\* np.isnan(a).any(), and u < v, u == v on floats: false when either is NaN
HasNaN(a) == \E i \in 1..Len(a) : a[i] = NaNCell
Lt(u, v) == u # NaNCell /\ v # NaNCell /\ u < v
Eq(u, v) == u # NaNCell /\ v # NaNCell /\ u = v

\* a feature value: an exact integer, a finite float left uncomputed, or NaN
Exact(v) == [nan |-> FALSE, exact |-> TRUE, value |-> v]
Finite == [nan |-> FALSE, exact |-> FALSE, value |-> 0]
NaN == [nan |-> TRUE, exact |-> FALSE, value |-> 0]
NumOrNaN(isnan) == IF isnan THEN NaN ELSE Finite
ExactOrNaN(isnan, v) == IF isnan THEN NaN ELSE Exact(v)

\* the three axes of a window, as window_df[...].values
AxisOf(window, col) == [i \in 1..Len(window) |-> window[i][col]]
Axes(window) ==
    [x |-> AxisOf(window, "acc_x"), y |-> AxisOf(window, "acc_y"),
     z |-> AxisOf(window, "acc_z")]

\* a variant that counts the crossings from above only
DownwardCrossings(a) ==
    Cardinality({i \in 1..(Len(a) - 1) :
                    a[i] # NaNCell /\ a[i + 1] # NaNCell /\ a[i] > 0 /\ a[i + 1] < 0})

\* ((axis[:-1] * axis[1:]) < 0).sum()
ZeroCrossings(a) ==
    Cardinality({i \in 1..(Len(a) - 1) :
                    a[i] # NaNCell /\ a[i + 1] # NaNCell /\ a[i] * a[i + 1] < 0})

TimeAxisItems(a, name) ==
    <<Item("mean_" \o name, NumOrNaN(HasNaN(a))),
      Item("median_" \o name, NumOrNaN(HasNaN(a))),
      Item("std_" \o name, NumOrNaN(HasNaN(a))),
      Item("var_" \o name, NumOrNaN(HasNaN(a))),
      Item("min_" \o name, ExactOrNaN(HasNaN(a), MinOf(a))),
      Item("max_" \o name, ExactOrNaN(HasNaN(a), MaxOf(a))),
      Item("range_" \o name, ExactOrNaN(HasNaN(a), MaxOf(a) - MinOf(a))),
      Item("rms_" \o name, NumOrNaN(HasNaN(a))),
      Item("energy_" \o name, NumOrNaN(HasNaN(a))),
      Item("zero_crossing_rate_" \o name, Exact(ZeroCrossings(a))),
      Item("skewness_" \o name, NumOrNaN(IsConstant(a) \/ HasNaN(a))),
      Item("kurtosis_" \o name, NumOrNaN(IsConstant(a) \/ HasNaN(a))),
      Item("peak_to_peak_" \o name, ExactOrNaN(HasNaN(a), MaxOf(a) - MinOf(a)))>>

\* some axis of the window holds a NaN
AnyNaN(ax) == HasNaN(ax.x) \/ HasNaN(ax.y) \/ HasNaN(ax.z)

compute_time_domain_features(ax) ==
    Return(Dict(Flatten([j \in 1..3 |-> TimeAxisItems(ax[AxisNames[j]], AxisNames[j])])
                \o <<Item("sma", NumOrNaN(AnyNaN(ax)))>>))

\* every one of the first N // 2 bins of the spectrum of a is zero: a is all
\* zero, or N is even and a is c, -c, c, -c, ...  (A NaN sample makes every
\* bin NaN; np.argmax then gives bin 0, whose frequency is 0.)
SpectrumZero(a) ==
    \/ \A i \in 1..Len(a) : a[i] = 0
    \/ /\ Len(a) % 2 = 0
       /\ \A i \in 1..Len(a) : a[i] = (IF i % 2 = 1 THEN a[1] ELSE -a[1])

NumCoeffs == 5

\* the loop body of compute_frequency_domain_features for one axis:
\* fft_vals has N // 2 bins
FrequencyAxis(a, name) ==
    LET N == Len(a)
        bins == N \div 2
    IN  IF bins = 0 THEN Raise("ValueError")            \* np.argmax of no bin
        ELSE IF bins < NumCoeffs THEN Raise("IndexError")   \* fft_vals[i]
        ELSE Return(
            <<Item("dominant_freq_" \o name, Finite),
              Item("spectral_energy_" \o name, NumOrNaN(HasNaN(a))),
              Item("spectral_centroid_" \o name, NumOrNaN(SpectrumZero(a) \/ HasNaN(a))),
              Item("spectral_entropy_" \o name, NumOrNaN(SpectrumZero(a) \/ HasNaN(a)))>>
            \o [i \in 1..NumCoeffs |->
                  Item("fft_coeff_" \o name \o "_" \o ToString(i - 1),
                       NumOrNaN(HasNaN(a)))])

compute_frequency_domain_features(ax) ==
    Bind([j \in 1..3 |-> FrequencyAxis(ax[AxisNames[j]], AxisNames[j])],
         LAMBDA per :
         IF per[1].exc # "none" THEN per[1]
         ELSE IF per[2].exc # "none" THEN per[2]
         ELSE IF per[3].exc # "none" THEN per[3]
         ELSE Return(Dict(per[1].val \o per[2].val \o per[3].val)))

compute_magnitude_features(ax) ==
    Return(Dict(<<Item("magnitude_mean", NumOrNaN(AnyNaN(ax))),
                  Item("magnitude_var", NumOrNaN(AnyNaN(ax))),
                  Item("magnitude_rms", NumOrNaN(AnyNaN(ax)))>>))

\* np.corrcoef(a, b)[0, 1] and np.cov(a, b)[0, 1] are NaN
CorrNaN(a, b) == IsConstant(a) \/ IsConstant(b) \/ HasNaN(a) \/ HasNaN(b)
CovNaN(a, b) == Len(a) < 2 \/ HasNaN(a) \/ HasNaN(b)

compute_cross_axis_features(ax) ==
    Return(Dict(<<Item("corr_xy", NumOrNaN(CorrNaN(ax.x, ax.y))),
                  Item("corr_xz", NumOrNaN(CorrNaN(ax.x, ax.z))),
                  Item("corr_yz", NumOrNaN(CorrNaN(ax.y, ax.z))),
                  Item("cov_xy", NumOrNaN(CovNaN(ax.x, ax.y))),
                  Item("cov_xz", NumOrNaN(CovNaN(ax.x, ax.z))),
                  Item("cov_yz", NumOrNaN(CovNaN(ax.y, ax.z)))>>))

\* magnitude[i] = 0
ZeroMagnitude(ax, i) == ax.x[i] = 0 /\ ax.y[i] = 0 /\ ax.z[i] = 0

\* np.corrcoef(a[:-1], a[1:])[0, 1] is NaN when either part has no variance
\* or holds a NaN
AutocorrNaN(a) ==
    \/ IsConstant(SubSeq(a, 1, Len(a) - 1))
    \/ IsConstant(SubSeq(a, 2, Len(a)))
    \/ HasNaN(a)

compute_advanced_features(ax) ==
    LET N == Len(ax.x)
        anyzero == \E i \in 1..N : ZeroMagnitude(ax, i)
        allzero == \A i \in 1..N : ZeroMagnitude(ax, i)
        nan     == AnyNaN(ax)
    IN  Return(Dict(<<Item("svm", NumOrNaN(nan)),
                      Item("tilt_x", NumOrNaN(anyzero \/ nan)),
                      Item("tilt_y", NumOrNaN(anyzero \/ nan)),
                      Item("tilt_z", NumOrNaN(anyzero \/ nan)),
                      Item("jerk_mean", NumOrNaN(N < 2 \/ nan)),
                      Item("jerk_rms", NumOrNaN(N < 2 \/ nan)),
                      Item("auc_x", NumOrNaN(N >= 2 /\ HasNaN(ax.x))),
                      Item("auc_y", NumOrNaN(N >= 2 /\ HasNaN(ax.y))),
                      Item("auc_z", NumOrNaN(N >= 2 /\ HasNaN(ax.z))),
                      Item("magnitude_entropy", NumOrNaN(allzero \/ nan)),
                      Item("autocorr_x", NumOrNaN(AutocorrNaN(ax.x))),
                      Item("autocorr_y", NumOrNaN(AutocorrNaN(ax.y))),
                      Item("autocorr_z", NumOrNaN(AutocorrNaN(ax.z)))>>))

RECURSIVE PlateauEnd(_, _, _)
\* scipy's find_peaks: from i_ahead, the first index that is the last one or
\* where the plateau of a[i] ends
PlateauEnd(a, i, i_ahead) ==
    IF i_ahead < Len(a) /\ Eq(a[i_ahead], a[i]) THEN PlateauEnd(a, i, i_ahead + 1)
    ELSE i_ahead

RECURSIVE PeaksFrom(_, _)
\* the number of peaks find_peaks finds from index i on: interior samples
\* (or plateaus) with a lower sample on each side
PeaksFrom(a, i) ==
    IF i >= Len(a) THEN 0
    ELSE IF Lt(a[i - 1], a[i]) /\ Lt(a[PlateauEnd(a, i, i + 1)], a[i])
         THEN 1 + PeaksFrom(a, PlateauEnd(a, i, i + 1) + 1)
         ELSE PeaksFrom(a, i + 1)

\* len(find_peaks(a)[0])
NumPeaks(a) == PeaksFrom(a, 2)

\* threshold = 0.5, in hundredths
ActivityThreshold == 50

\* linregress(np.arange(len(a)), a).slope is 0/0 on one sample
WindowedAxisItems(a, name) ==
    <<Item("slope_" \o name, NumOrNaN(Len(a) < 2 \/ HasNaN(a))),
      Item("num_peaks_" \o name, Exact(NumPeaks(a))),
      Item("num_troughs_" \o name, Exact(NumPeaks(Negated(a)))),
      Item("activity_count_" \o name,
           Exact(Cardinality({i \in 1..Len(a) :
                                 a[i] # NaNCell /\ Abs(a[i]) > ActivityThreshold})))>>

compute_windowed_features(ax) ==
    IF Len(ax.x) = 0 THEN Raise("ValueError")   \* linregress: inputs must not be empty
    ELSE Return(Dict(Flatten([j \in 1..3 |->
                        WindowedAxisItems(ax[AxisNames[j]], AxisNames[j])])))

\* features.update(group) while nothing has been raised
Then(features, group) ==
    IF features.exc # "none" THEN features
    ELSE IF group.exc # "none" THEN group
    ELSE Return(update(features.val, group.val))

\* a variant that takes the absolute values in place (np.abs(x, out=x))
window_made_absolute(window_df) ==
    [i \in 1..Len(window_df) |->
        [c \in DOMAIN window_df[i] |->
            IF c \in RequiredColumns /\ window_df[i][c] # NaNCell
            THEN Abs(window_df[i][c]) ELSE window_df[i][c]]]

\* window_df as a call of extract_features_from_window leaves it: .values
\* are read, and every operation on them (**, np.abs, -axis, slices) makes
\* a new array
window_after_call(window_df) == window_df

extract_features_from_window(window_df) ==
    Bind(Axes(window_df), LAMBDA ax :
         Then(Then(Then(Then(Then(Then(Return(<<>>),
              compute_time_domain_features(ax)),
              compute_frequency_domain_features(ax)),
              compute_magnitude_features(ax)),
              compute_cross_axis_features(ax)),
              compute_advanced_features(ax)),
              compute_windowed_features(ax)))

RECURSIVE range(_, _, _)
\* Python's range(start, stop, step) for step > 0
range(start, stop, step) ==
    IF start >= stop THEN <<>> ELSE <<start>> \o range(start + step, stop, step)

\* df.iloc[start:stop], 0-based and clipped like a Python slice
iloc(rows, start, stop) == SubSeq(rows, start + 1, Min(stop, Len(rows)))

RECURSIVE FeatureRows(_, _, _)
\* the loop of extract_features_from_dataframe over the remaining starts
FeatureRows(rows, starts, window_size) ==
    IF starts = <<>> THEN Return(<<>>)
    ELSE Bind(extract_features_from_window(
                  iloc(rows, Head(starts), Head(starts) + window_size)),
              LAMBDA features :
              IF features.exc # "none" THEN features
              ELSE Bind(FeatureRows(rows, Tail(starts), window_size),
                        LAMBDA rest :
                        IF rest.exc # "none" THEN rest
                        ELSE Return(<<features.val>> \o rest.val)))

\* a variant that keeps the raw axis columns next to the features
DataFrameWithSamples(feature_rows) ==
    [columns |-> <<"acc_x", "acc_y", "acc_z">>
                 \o (IF feature_rows = <<>> THEN <<>> ELSE Keys(feature_rows[1])),
     rows |-> feature_rows]

\* pd.DataFrame(feature_rows): the columns are the keys of the rows in order
\* of first appearance; no row gives no column
DataFrame(feature_rows) ==
    [columns |-> IF feature_rows = <<>> THEN <<>> ELSE Keys(feature_rows[1]),
     rows |-> feature_rows]

\* a variant whose windows start one row late: the last sample of a window
\* is the first one after it
extract_features_one_row_late(df, window_size) ==
    Bind(FeatureRows(IF df.rows = <<>> THEN <<>> ELSE Tail(df.rows) \o <<Head(df.rows)>>,
                     range(0, Len(df.rows) - window_size + 1, window_size),
                     window_size),
         LAMBDA feature_rows :
         IF feature_rows.exc # "none" THEN feature_rows
         ELSE Return(DataFrame(feature_rows.val)))

\* a variant whose last window may be short: the starts go up to len(df)
extract_features_with_short_window(df, window_size) ==
    Bind(FeatureRows(df.rows, range(0, Len(df.rows), window_size), window_size),
         LAMBDA feature_rows :
         IF feature_rows.exc # "none" THEN feature_rows
         ELSE Return(DataFrame(feature_rows.val)))

extract_features_from_dataframe(df, window_size) ==
    Bind(FeatureRows(df.rows,
                     range(0, Len(df.rows) - window_size + 1, window_size),
                     window_size),
         LAMBDA feature_rows :
         IF feature_rows.exc # "none" THEN feature_rows
         ELSE Return(DataFrame(feature_rows.val)))

(***************************************************************************)
(* State.  The normalizer script, the feature driver and the pure-function *)
(* harness each have their own variables; a specification runs one of them *)
(* and leaves the others idle.                                             *)
(***************************************************************************)
VARIABLES
    listing,      \* os.listdir(BASE_DIR): entries [name, isdir, files]
    pc,           \* where the normalizer script is
    folder_i,     \* index of char_folder in listing
    file_i,       \* index of csv_file in the folder's files
    dirs,         \* directories the script has created
    written,      \* output path -> table written there
    console       \* the lines printed, in order

VARIABLES
    walk,         \* os.walk(root_folder): entries [dirpath, filenames]
    output_root,  \* the output_root argument, a path
    window_size,  \* the window_size argument
    fpc,          \* where traverse_and_extract_features is
    dir_i,        \* index of the walked directory
    name_i,       \* index of filename in its filenames
    fdirs,        \* directories the driver has created
    fwritten,     \* output path -> table written there
    fconsole      \* the lines printed, in order

VARIABLES li_signal, li_lambda, li_out

VARIABLES
    fx_file,         \* a recording the pure functions are applied to
    fx_window_size,  \* the window_size they are given
    fx_table,        \* what extract_features_from_dataframe returns or raises
    fx_window,       \* the first window of the recording, as the calls leave it
    fx_vector,       \* what extract_features_from_window does on fx_window
    fx_again,        \* what a second call on fx_window does
    fx_time,         \* what compute_time_domain_features does on its axes
    fx_windowed,     \* what compute_windowed_features does on its axes
    fx_norm          \* what preprocess returns or raises

VARIABLES
    disk,            \* the recording explorer: the files that exist
    current_folder,  \* DataExplorer.current_folder
    data_files,      \* DataExplorer.data_files, a list of paths
    current_index,   \* DataExplorer.current_index
    visualizer,      \* the file whose rows are plotted, or NoFile
    prev_button,     \* whether prev_button is enabled
    next_button,     \* whether next_button is enabled
    delete_button,   \* whether delete_button is enabled
    dialog           \* the message box the last handler showed last

ExplorerVars == <<disk, current_folder, data_files, current_index, visualizer,
                  prev_button, next_button, delete_button, dialog>>
VARIABLES
    app,             \* which collection app runs: "main.py", "main2.py" or "none"
    recording,       \* DataRecorder.recording
    data_buffer,     \* DataRecorder.data_buffer (recorded_data in main2.py)
    start_time,      \* DataRecorder.start_time
    events,          \* what the window was handed so far: starts, stops, samples
    record_button,   \* main.py: [enabled, text] of record_button
    start_button,    \* main2.py: whether start_button is enabled
    stop_button,     \* main2.py: whether stop_button is enabled
    inputs,          \* main2.py: whether alphabet_combo, hand_combo, username_input are enabled
    user_id_label,   \* the text of user_id_label (user_id_display in main2.py)
    message          \* the message box or status line the last handler left

RecorderVars == <<recording, data_buffer, start_time, events, record_button,
                  start_button, stop_button, inputs, user_id_label, message>>
VARIABLES
    device,          \* "healthy": every read succeeds; "faulty": reads may raise
    serial_port,     \* SerialThread.serial_port (serial_conn in main2.py):
                     \* "None", or a port that is "open" or "closed"
    running,         \* the thread's running flag
    tpc,             \* where the thread is in run(), "stopped" outside it
    gpc,             \* where the window's thread is inside toggle_connection
    queue,           \* signals the thread emitted, not yet delivered to their slots
    connect_button,  \* the text of connect_button
    status_label     \* the text of status_label (connection_status in main2.py)

SerialVars == <<device, serial_port, running, tpc, gpc, queue, connect_button, status_label>>
VARIABLES
    users,           \* UserManager.users: [username, user_id] records, one per username
    users_file,      \* users.csv: whether it exists, and its lines
    calls            \* the calls of register_user with what they returned, and the restarts

UserVars == <<users, users_file, calls>>
AppVars == <<ExplorerVars, app, RecorderVars, SerialVars, UserVars>>

FeatVars == <<walk, output_root, window_size, fpc, dir_i, name_i, fdirs, fwritten, fconsole>>
NormVars == <<listing, pc, folder_i, file_i, dirs, written, console>>
LeakyVars == <<li_signal, li_lambda, li_out>>
PureVars == <<fx_file, fx_window_size, fx_table, fx_window, fx_vector, fx_again,
              fx_time, fx_windowed, fx_norm>>
BatchVars == <<NormVars, FeatVars, LeakyVars, PureVars>>

\* a function as a set of <<argument, value>> pairs would do; written files
\* are kept as a set of [path, table] records, one per path
Put(files, path, table) ==
    {f \in files : f.path # path} \cup {[path |-> path, table |-> table]}

Paths(files) == {f.path : f \in files}

RECURSIVE JoinPath(_)
\* os.path.join of the directories of a path, and the text of a whole path
JoinPath(parts) == IF parts = <<>> THEN "" ELSE Head(parts) \o "/" \o JoinPath(Tail(parts))
PathText(p) == JoinPath(p.dir) \o p.file.root \o p.file.ext

(***************************************************************************)
(* The normalizer's batch loop (PreProcessor.py, module level)             *)
(***************************************************************************)
BASE_DIR == <<"Dataset">>
OUTPUT_DIR == BASE_DIR \o <<"preprocessed_data">>

\* except Exception: every exception a file's processing raises is one
ExceptionClasses == {"IndexError", "KeyError", "ValueError", "OSError"}

\* variants of the except clause that let some exception through
CatchesAllButKeyError(e) == e \in ExceptionClasses \ {"KeyError"}
CatchesOnlyOSError(e) == e = "OSError"
CatchesNothing(e) == FALSE

CatchesException(e) == e \in ExceptionClasses

\* lines 36 and 40: create OUTPUT_DIR, list BASE_DIR
NormStart ==
    /\ pc = "start"
    /\ \E fault \in {"none", "OSError"} :
          IF fault = "none"
          THEN /\ dirs' = dirs \cup {OUTPUT_DIR}
               /\ pc' = "folder"
          ELSE /\ pc' = "crashed"
               /\ UNCHANGED dirs
    /\ UNCHANGED <<listing, folder_i, file_i, written, console>>
    /\ UNCHANGED <<FeatVars, LeakyVars, PureVars, AppVars>>

\* one iteration of "for char_folder in os.listdir(BASE_DIR)", lines 40-51,
\* up to the listing of the folder's files; past the last entry the script ends
NormFolder ==
    /\ pc = "folder"
    /\ IF folder_i > Len(listing)
       THEN /\ pc' = "done"
            /\ UNCHANGED <<folder_i, file_i, dirs>>
       ELSE LET entry == listing[folder_i]
                output_char_folder == OUTPUT_DIR \o <<entry.name>>
            IN  IF ~entry.isdir \/ entry.name = "preprocessed_data"
                THEN /\ folder_i' = folder_i + 1
                     /\ UNCHANGED <<pc, file_i, dirs>>
                ELSE \E fault \in {"none", "makedirs", "listdir"} :
                        CASE fault = "makedirs" ->
                                /\ pc' = "crashed"
                                /\ UNCHANGED <<folder_i, file_i, dirs>>
                          [] fault = "listdir" ->
                                /\ dirs' = dirs \cup {output_char_folder}
                                /\ pc' = "crashed"
                                /\ UNCHANGED <<folder_i, file_i>>
                          [] fault = "none" ->
                                /\ dirs' = dirs \cup {output_char_folder}
                                /\ pc' = "file"
                                /\ file_i' = 1
                                /\ UNCHANGED folder_i
    /\ UNCHANGED <<listing, written, console>>
    /\ UNCHANGED <<FeatVars, LeakyVars, PureVars, AppVars>>

\* lines 63-65: the path the normalized csv_file of char_folder is written to
output_path(char_folder, csv_file) ==
    LET parts == splitext(csv_file.name)
        new_filename == [root |-> parts.root \o "_preprocessed", ext |-> parts.ext]
    IN  [dir |-> OUTPUT_DIR \o <<char_folder>>, file |-> new_filename]

\* the try body of lines 57-68 for one csv_file: what is raised, or the
\* table and the path it is written to
NormTry(char_folder, csv_file, fault) ==
    IF fault = "read" THEN Raise("OSError")
    ELSE Bind(preprocess(read_csv(csv_file)), LAMBDA processed_df :
         IF processed_df.exc # "none" THEN processed_df
         ELSE IF fault = "write" THEN Raise("OSError")
         ELSE Return([path |-> output_path(char_folder, csv_file),
                      table |-> processed_df.val]))

\* one iteration of "for csv_file in os.listdir(char_path)", lines 51-71;
\* past the last file the outer loop goes on
NormFile ==
    /\ pc = "file"
    /\ LET entry == listing[folder_i]
       IN  IF file_i > Len(entry.files)
           THEN /\ pc' = "folder"
                /\ folder_i' = folder_i + 1
                /\ UNCHANGED <<file_i, written, console>>
           ELSE LET csv_file == entry.files[file_i]
                    input_path == [dir |-> BASE_DIR \o <<entry.name>>, file |-> csv_file.name]
                IN  IF ~endswith_csv(csv_file.name)
                    THEN /\ file_i' = file_i + 1
                         /\ UNCHANGED <<pc, folder_i, written, console>>
                    ELSE \E fault \in {"none", "read", "write"} :
                            \E r \in {NormTry(entry.name, csv_file, fault)} :
                                IF r.exc = "none"
                                THEN /\ written' = Put(written, r.val.path, r.val.table)
                                     /\ console' = Append(console,
                                            [tag |-> "processed", path |-> input_path,
                                             msg |-> "saved"])
                                     /\ file_i' = file_i + 1
                                     /\ UNCHANGED <<pc, folder_i>>
                                ELSE IF CatchesException(r.exc)
                                THEN /\ console' = Append(console,
                                            [tag |-> "failed", path |-> input_path,
                                             msg |-> r.exc])
                                     /\ file_i' = file_i + 1
                                     /\ UNCHANGED <<pc, folder_i, written>>
                                ELSE /\ pc' = "crashed"
                                     /\ UNCHANGED <<folder_i, file_i, written, console>>
    /\ UNCHANGED <<listing, dirs>>
    /\ UNCHANGED <<FeatVars, LeakyVars, PureVars, AppVars>>

(***************************************************************************)
(* The trees the normalizer is run on                                      *)
(***************************************************************************)
AllColumns == {"timestamp", "acc_x", "acc_y", "acc_z"}

MaxNormRows == 3
MaxNormFiles == 2
MaxFolders == 2

NormKinds ==
    {[ext |-> ".csv", cols |-> AllColumns, n |-> n, content |-> "generic"] :
         n \in {0, MaxNormRows}}
    \cup {[ext |-> ".csv", cols |-> AllColumns, n |-> MaxNormRows, content |-> "const193"]}
    \cup {[ext |-> ".csv", cols |-> AllColumns \ {"acc_y"}, n |-> 2, content |-> "generic"],
          [ext |-> ".txt", cols |-> AllColumns, n |-> 1, content |-> "generic"]}

FileRoots == <<"r1", "r2", "r3", "r4">>
FolderNames == <<"A", "B", "C", "D">>

\* the files of a folder: kinds, named r1, r2, ... in listing order
NamedFiles(kinds) ==
    [i \in 1..Len(kinds) |->
        [name |-> [root |-> FileRoots[i], ext |-> kinds[i].ext],
         cols |-> kinds[i].cols, n |-> kinds[i].n, content |-> kinds[i].content]]

\* the files of kinds dealt over d folders in turn, from folder r + 1 on
Deal(kinds, d, r) ==
    [i \in 1..d |->
        LET first == ((i - 1 - r + d) % d) + 1
            count == IF first > Len(kinds) THEN 0 ELSE (Len(kinds) - first) \div d + 1
        IN  [kinds |-> [m \in 1..count |-> kinds[first + (m - 1) * d]]]]

\* the trees of at most maxd folders that hold at most f files of the kinds
Trees(kinds, f, maxd) ==
    {Deal(k, d, r) : k \in SeqsUpTo(kinds, f), d \in 1..maxd, r \in 0..1}

NormTrees == Trees(NormKinds, MaxNormFiles, MaxFolders)

\* the listing of BASE_DIR: the character folders named A, B, ... with,
\* at position k, the output folder, which line 36 has created, and a
\* recording that lies in BASE_DIR itself, in no folder
Listing(t, k) ==
    LET named == [i \in 1..Len(t) |->
                    [name |-> FolderNames[i], ext |-> "", isdir |-> TRUE,
                     files |-> NamedFiles(t[i].kinds)]]
        out   == [name |-> "preprocessed_data", ext |-> "", isdir |-> TRUE, files |-> <<>>]
        stray == [name |-> "r0.csv", ext |-> ".csv", isdir |-> FALSE, files |-> <<>>]
    IN  SubSeq(named, 1, k - 1) \o <<out, stray>> \o SubSeq(named, k, Len(named))

NormInit ==
    /\ \E t \in NormTrees : \E k \in 1..(Len(t) + 1) : listing = Listing(t, k)
    /\ pc = "start"
    /\ folder_i = 1
    /\ file_i = 1
    /\ dirs = {}
    /\ written = {}
    /\ console = <<>>

NormIdle ==
    /\ listing = <<>>
    /\ pc = "idle"
    /\ folder_i = 0
    /\ file_i = 0
    /\ dirs = {}
    /\ written = {}
    /\ console = <<>>

(***************************************************************************)
(* The feature driver (traverse_and_extract_features)                      *)
(***************************************************************************)
root_folder == <<"recordings">>

\* the default output_root, beside root_folder, and one inside root_folder
DefaultOutputRoot == <<"extracted_features">>
NestedOutputRoot == root_folder \o <<"extracted_features">>

\* line 146: the path of a file of dirpath
filepath(dirpath, file) == [dir |-> root_folder \o dirpath, file |-> file.name]

\* a variant that writes every output directly into output_root
save_dir_flat(dirpath) == output_root

\* lines 158-163: the directory and the path the features of a file of
\* dirpath are written to (dirpath is kept relative to root_folder)
save_dir(dirpath) == output_root \o dirpath
save_path(dirpath, file) ==
    [dir |-> save_dir(dirpath),
     file |-> [root |-> "features_" \o file.name.root, ext |-> file.name.ext]]

\* a variant whose list of feature rows outlives the file: the rows of a
\* file saved before come first in the table
FeatTryCarrying(dirpath, file, fault) ==
    IF fault = "read" THEN Raise("OSError")
    ELSE IF ~(RequiredColumns \subseteq read_csv(file).columns)
    THEN Return([skip |-> TRUE])
    ELSE Bind(extract_features_from_dataframe(read_csv(file), window_size),
              LAMBDA features_df :
         IF features_df.exc # "none" THEN features_df
         ELSE IF fault = "makedirs" THEN Raise("OSError")
         ELSE IF fault = "write"
         THEN [exc |-> "OSError", made |-> save_dir(dirpath)]
         ELSE Return([skip |-> FALSE, dir |-> save_dir(dirpath),
                      path |-> save_path(dirpath, file),
                      table |-> IF fwritten = {} THEN features_df.val
                                ELSE DataFrame((CHOOSE f \in fwritten : TRUE).table.rows
                                               \o features_df.val.rows)]))

\* the try body of lines 149-165 for one file: what is raised, a skip, or
\* the table and the path it is written to
FeatTry(dirpath, file, fault) ==
    IF fault = "read" THEN Raise("OSError")
    ELSE IF file.cols = {} THEN Raise("ValueError")    \* pandas' EmptyDataError
    ELSE IF ~(RequiredColumns \subseteq read_csv(file).columns)
    THEN Return([skip |-> TRUE])
    ELSE Bind(extract_features_from_dataframe(read_csv(file), window_size),
              LAMBDA features_df :
         IF features_df.exc # "none" THEN features_df
         ELSE IF fault = "makedirs" THEN Raise("OSError")
         ELSE IF fault = "write"
         THEN [exc |-> "OSError", made |-> save_dir(dirpath)]
         ELSE Return([skip |-> FALSE, dir |-> save_dir(dirpath),
                      path |-> save_path(dirpath, file),
                      table |-> features_df.val]))

\* line 154: the columns the skip notice names, a literal of the source
SkipNoticeColumns == {"acc_x", "acc_y", "acc_z"}

\* the next directory of the walk; past the last one the driver returns
FeatDir ==
    /\ fpc = "walk"
    /\ IF dir_i > Len(walk)
       THEN /\ fpc' = "done"
            /\ UNCHANGED name_i
       ELSE /\ fpc' = "file"
            /\ name_i' = 1
    /\ UNCHANGED <<walk, output_root, window_size, dir_i, fdirs, fwritten, fconsole>>
    /\ UNCHANGED <<NormVars, LeakyVars, PureVars, AppVars>>

\* one iteration of "for filename in filenames", lines 144-168; past the
\* last file the walk goes on
FeatFile ==
    /\ fpc = "file"
    /\ LET entry == walk[dir_i]
       IN  IF name_i > Len(entry.filenames)
           THEN /\ fpc' = "walk"
                /\ dir_i' = dir_i + 1
                /\ UNCHANGED <<name_i, fdirs, fwritten, fconsole>>
           ELSE LET file == entry.filenames[name_i]
                    path == filepath(entry.dirpath, file)
                    processing == [tag |-> "processing", path |-> path, msg |-> ""]
                IN  IF ~endswith_csv(file.name)
                    THEN /\ name_i' = name_i + 1
                         /\ UNCHANGED <<fpc, dir_i, fdirs, fwritten, fconsole>>
                    ELSE \E fault \in {"none", "read", "makedirs", "write"} :
                         \E r \in {FeatTry(entry.dirpath, file, fault)} :
                            IF r.exc # "none"
                            THEN IF CatchesException(r.exc)
                                 THEN /\ fconsole' = fconsole \o
                                            <<processing,
                                              [tag |-> "error", path |-> path,
                                               msg |-> r.exc]>>
                                      /\ fdirs' = IF "made" \in DOMAIN r
                                                  THEN fdirs \cup {r.made} ELSE fdirs
                                      /\ name_i' = name_i + 1
                                      /\ UNCHANGED <<fpc, dir_i, fwritten>>
                                 ELSE /\ fpc' = "propagated"
                                      /\ fconsole' = Append(fconsole, processing)
                                      /\ UNCHANGED <<dir_i, name_i, fdirs, fwritten>>
                            ELSE IF r.val.skip
                            THEN /\ fconsole' = fconsole \o
                                       <<processing,
                                         [tag |-> "skipped", path |-> path,
                                          msg |-> "missing acc_x, acc_y, acc_z columns",
                                          columns |-> SkipNoticeColumns]>>
                                 /\ name_i' = name_i + 1
                                 /\ UNCHANGED <<fpc, dir_i, fdirs, fwritten>>
                            ELSE /\ fdirs' = fdirs \cup {r.val.dir}
                                 /\ fwritten' = Put(fwritten, r.val.path, r.val.table)
                                 /\ fconsole' = fconsole \o
                                       <<processing,
                                         [tag |-> "saved", path |-> r.val.path,
                                          msg |-> ""]>>
                                 /\ name_i' = name_i + 1
                                 /\ UNCHANGED <<fpc, dir_i>>
    /\ UNCHANGED <<walk, output_root, window_size>>
    /\ UNCHANGED <<NormVars, LeakyVars, PureVars, AppVars>>

(***************************************************************************)
(* The trees the feature driver is run on                                  *)
(***************************************************************************)
MaxWindow == 10
MaxFeatFiles == 2
MaxDirs == 2

\* window sizes tried: 1, one too small for NumCoeffs bins, and MaxWindow
WindowSizes == {1, MaxWindow \div 2, MaxWindow}

\* row counts tried: none, one short of a window, one window, two windows
\* and a remainder
Lengths(W) == {0, W - 1, W, 2 * W + W \div 2}

\* the files of a tree: without a window and with two, all zero, with a
\* constant axis, without acc_y, and no .csv file
FeatKinds(W) ==
    {[ext |-> ".csv", cols |-> AllColumns, n |-> n, content |-> "generic"] :
         n \in {W - 1, 2 * W + W \div 2}}
    \cup {[ext |-> ".csv", cols |-> AllColumns, n |-> 2 * W + W \div 2, content |-> c] :
         c \in {"allzero", "constx"}}
    \cup {[ext |-> ".csv", cols |-> AllColumns \ {"acc_y"}, n |-> W, content |-> "generic"],
          [ext |-> ".txt", cols |-> AllColumns, n |-> W, content |-> "generic"]}

\* the directories in the order os.walk yields them, top down
DirPaths == << <<>>, <<"A">>, <<"A", "s1">>, <<"B">> >>

FeatTrees(W) == Trees(FeatKinds(W), MaxFeatFiles, MaxDirs)

Walk(t) ==
    [i \in 1..Len(t) |-> [dirpath |-> DirPaths[i], filenames |-> NamedFiles(t[i].kinds)]]

FeatInit ==
    /\ output_root = DefaultOutputRoot
    /\ window_size \in WindowSizes
    /\ \E t \in FeatTrees(window_size) : walk = Walk(t)
    /\ fpc = "walk"
    /\ dir_i = 1
    /\ name_i = 1
    /\ fdirs = {}
    /\ fwritten = {}
    /\ fconsole = <<>>

FeatIdle ==
    /\ walk = <<>>
    /\ output_root = DefaultOutputRoot
    /\ window_size = 0
    /\ fpc = "idle"
    /\ dir_i = 0
    /\ name_i = 0
    /\ fdirs = {}
    /\ fwritten = {}
    /\ fconsole = <<>>

(***************************************************************************)
(* A run over a tree that an earlier run has been over: the outputs of the *)
(* earlier run, made when the recordings had fewer rows, are on disk       *)
(***************************************************************************)
\* the recording as the earlier run read it
Earlier(file, n) == [file EXCEPT !.n = n]

\* what the earlier feature run left: one output per file it saved
FeatLeftovers(w, W) ==
    {[path |-> save_path(w[i].dirpath, w[i].filenames[j]),
      table |-> extract_features_from_dataframe(
                    read_csv(Earlier(w[i].filenames[j], 0)), W).val] :
        <<i, j>> \in {<<i, j>> \in (1..Len(w)) \X (1..MaxFeatFiles) :
                         /\ j <= Len(w[i].filenames)
                         /\ endswith_csv(w[i].filenames[j].name)
                         /\ RequiredColumns \subseteq w[i].filenames[j].cols}}

\* what the earlier normalizer run left
NormLeftovers(l) ==
    {[path |-> output_path(l[i].name, l[i].files[j]),
      table |-> preprocess(read_csv(Earlier(l[i].files[j], 1))).val] :
        <<i, j>> \in {<<i, j>> \in (1..Len(l)) \X (1..MaxNormFiles) :
                         /\ j <= Len(l[i].files)
                         /\ endswith_csv(l[i].files[j].name)
                         /\ RequiredColumns \subseteq l[i].files[j].cols}}

FeatRerunInit ==
    /\ output_root = DefaultOutputRoot
    /\ window_size \in WindowSizes
    /\ \E t \in FeatTrees(window_size) : walk = Walk(t)
    /\ fpc = "walk"
    /\ dir_i = 1
    /\ name_i = 1
    /\ fwritten = FeatLeftovers(walk, window_size)
    /\ fdirs = {f.path.dir : f \in fwritten}
    /\ fconsole = <<>>

\* the file the earlier run saved for a recording that is as it was then
OutputFile(file, W) ==
    Bind(extract_features_from_dataframe(read_csv(file), W).val, LAMBDA t :
         [name |-> [root |-> "features_" \o file.name.root, ext |-> file.name.ext],
          cols |-> SeqRange(t.columns), n |-> Len(t.rows), content |-> "generic"])

\* the recording has an output: the earlier run saved one for it
HasOutput(file, W) ==
    /\ endswith_csv(file.name)
    /\ RequiredColumns \subseteq file.cols
    /\ extract_features_from_dataframe(read_csv(file), W).exc = "none"

\* dirpath, relative to root_folder, lies in the nested output root
InOutputTree(dirpath) == dirpath # <<>> /\ Head(dirpath) = "extracted_features"

\* the walk of the output tree that lies in root_folder: a directory for
\* each walked one that has outputs
OutputWalk(w, W) ==
    Flatten([i \in 1..Len(w) |->
        IF \E j \in 1..Len(w[i].filenames) : HasOutput(w[i].filenames[j], W)
        THEN <<[dirpath |-> <<"extracted_features">> \o w[i].dirpath,
                filenames |->
                    LET kept == SelectSeq(w[i].filenames, LAMBDA f : HasOutput(f, W))
                    IN  [j \in 1..Len(kept) |-> OutputFile(kept[j], W)]]>>
        ELSE <<>>])

\* a run with output_root inside root_folder, after an earlier such run
FeatNestedInit ==
    /\ output_root = NestedOutputRoot
    /\ window_size \in WindowSizes
    /\ \E t \in Trees({k \in FeatKinds(window_size) : k.content = "generic"},
                      MaxFeatFiles, MaxDirs) :
          walk = Walk(t) \o OutputWalk(Walk(t), window_size)
    /\ fpc = "walk"
    /\ dir_i = 1
    /\ name_i = 1
    /\ fwritten = {[path |-> save_path(walk[i].dirpath, walk[i].filenames[j]),
                    table |-> extract_features_from_dataframe(
                                  read_csv(walk[i].filenames[j]), window_size).val] :
                      <<i, j>> \in {<<i, j>> \in (1..Len(walk)) \X (1..MaxFeatFiles) :
                                       /\ j <= Len(walk[i].filenames)
                                       /\ ~InOutputTree(walk[i].dirpath)
                                       /\ HasOutput(walk[i].filenames[j], window_size)}}
    /\ fdirs = {f.path.dir : f \in fwritten}
    /\ fconsole = <<>>

NormRerunInit ==
    /\ \E t \in NormTrees : \E k \in 1..(Len(t) + 1) : listing = Listing(t, k)
    /\ pc = "start"
    /\ folder_i = 1
    /\ file_i = 1
    /\ written = NormLeftovers(listing)
    /\ dirs = {OUTPUT_DIR} \cup {f.path.dir : f \in written}
    /\ console = <<>>

(***************************************************************************)
(* leaky_integrator as a pure function of its two arguments                *)
(***************************************************************************)
MaxLeakyLen == 3

\* cells of the signals tried, in hundredths
LeakyCells == {0, 100, 193, -250}

\* smoothing factors tried: 0.9 (the default), 0.5, 1 and 0
LeakyLambdas == {FromRatio(9, 10), FromRatio(1, 2), FromRatio(1, 1), FromRatio(0, 1)}

LeakyIdle ==
    /\ li_signal = <<>>
    /\ li_lambda = DefaultLambda
    /\ li_out = Raise("idle")

LeakyInit ==
    /\ li_signal \in SeqsUpTo(LeakyCells, MaxLeakyLen)
    /\ li_lambda \in LeakyLambdas
    /\ li_out = Raise("pending")

LeakyApply ==
    /\ li_out = Raise("pending")
    /\ li_out' = leaky_integrator([i \in 1..Len(li_signal) |-> ParseCell(li_signal[i])],
                                  li_lambda)
    /\ UNCHANGED <<li_signal, li_lambda>>
    /\ UNCHANGED <<NormVars, FeatVars, PureVars, AppVars>>

(***************************************************************************)
(* preprocess, extract_features_from_dataframe and                         *)
(* extract_features_from_window as pure functions of a recording           *)
(***************************************************************************)
Pending == Raise("pending")

\* recordings with the required columns: the row counts of Lengths, the
\* degenerate contents and one with empty acc_y cells
PureKinds(W) ==
    {[ext |-> ".csv", cols |-> AllColumns, n |-> n, content |-> "generic"] :
         n \in Lengths(W)}
    \cup {[ext |-> ".csv", cols |-> AllColumns, n |-> 2 * W + W \div 2, content |-> c] :
         c \in {"allzero", "constx", "zeromag", "const193", "gap"}}

PureIdle ==
    /\ fx_file = NamedFiles(<<>>)
    /\ fx_window_size = 0
    /\ fx_table = Raise("idle")
    /\ fx_window = <<>>
    /\ fx_vector = Raise("idle")
    /\ fx_again = Raise("idle")
    /\ fx_time = Raise("idle")
    /\ fx_windowed = Raise("idle")
    /\ fx_norm = Raise("idle")

\* line 135: the first window of the recording
FirstWindow(file, W) == iloc(read_csv(file).rows, 0, W)

PureInit ==
    /\ fx_window_size \in 1..MaxWindow
    /\ \E k \in PureKinds(fx_window_size) : fx_file = NamedFiles(<<k>>)[1]
    /\ fx_table = Pending
    /\ fx_window = FirstWindow(fx_file, fx_window_size)
    /\ fx_vector = Pending
    /\ fx_again = Pending
    /\ fx_time = Pending
    /\ fx_windowed = Pending
    /\ fx_norm = Pending

ApplyDataframe ==
    /\ fx_table = Pending
    /\ fx_table' = extract_features_from_dataframe(read_csv(fx_file), fx_window_size)
    /\ UNCHANGED <<fx_file, fx_window_size, fx_window, fx_vector, fx_again,
                   fx_time, fx_windowed, fx_norm>>
    /\ UNCHANGED <<NormVars, FeatVars, LeakyVars, AppVars>>

\* the first call on the first window of the recording, when it has one
ApplyWindow ==
    /\ fx_vector = Pending
    /\ fx_file.n >= fx_window_size
    /\ fx_vector' = extract_features_from_window(fx_window)
    /\ fx_window' = window_after_call(fx_window)
    /\ UNCHANGED <<fx_file, fx_window_size, fx_table, fx_again, fx_time, fx_windowed,
                   fx_norm>>
    /\ UNCHANGED <<NormVars, FeatVars, LeakyVars, AppVars>>

\* a second call on the same window
ApplyWindowAgain ==
    /\ fx_vector # Pending
    /\ fx_again = Pending
    /\ fx_again' = extract_features_from_window(fx_window)
    /\ fx_window' = window_after_call(fx_window)
    /\ UNCHANGED <<fx_file, fx_window_size, fx_table, fx_vector, fx_time, fx_windowed,
                   fx_norm>>
    /\ UNCHANGED <<NormVars, FeatVars, LeakyVars, AppVars>>

\* the feature groups of lines 11-28 and 103-115 on the axes of the
\* recording's first window_size samples
ApplyTimeDomain ==
    /\ fx_time = Pending
    /\ fx_file.n >= fx_window_size
    /\ fx_time' = compute_time_domain_features(Axes(fx_window))
    /\ UNCHANGED <<fx_file, fx_window_size, fx_table, fx_window, fx_vector, fx_again,
                   fx_windowed, fx_norm>>
    /\ UNCHANGED <<NormVars, FeatVars, LeakyVars, AppVars>>

ApplyWindowed ==
    /\ fx_windowed = Pending
    /\ fx_file.n >= fx_window_size
    /\ fx_windowed' = compute_windowed_features(Axes(fx_window))
    /\ UNCHANGED <<fx_file, fx_window_size, fx_table, fx_window, fx_vector, fx_again,
                   fx_time, fx_norm>>
    /\ UNCHANGED <<NormVars, FeatVars, LeakyVars, AppVars>>

ApplyPreprocess ==
    /\ fx_norm = Pending
    /\ fx_norm' = preprocess(read_csv(fx_file))
    /\ UNCHANGED <<fx_file, fx_window_size, fx_table, fx_window, fx_vector, fx_again,
                   fx_time, fx_windowed>>
    /\ UNCHANGED <<NormVars, FeatVars, LeakyVars, AppVars>>

(***************************************************************************)
(* The recording explorer: DataExplorer of datamanage.py                   *)
(***************************************************************************)
BatchIdle == FeatIdle /\ NormIdle /\ LeakyIdle /\ PureIdle

\* the files of the explorer's disk, in the order os.walk meets them; good
\* tells whether csv.DictReader and float() accept the file's content
ExplorerFiles ==
    << [dir |-> <<"A">>, root |-> "a_1_R_0101", ext |-> ".csv", good |-> TRUE],
       [dir |-> <<"A">>, root |-> "notes", ext |-> ".txt", good |-> TRUE],
       [dir |-> <<"A", "s">>, root |-> "c_2_R_0102", ext |-> ".csv", good |-> FALSE],
       [dir |-> <<"A", "s">>, root |-> "b_1_L_0101", ext |-> ".CSV", good |-> TRUE],
       [dir |-> <<"A", "s">>, root |-> "e_1_L_0103", ext |-> ".csv", good |-> TRUE],
       [dir |-> <<"B">>, root |-> "d_2_L_0102", ext |-> ".csv", good |-> TRUE] >>

\* what QFileDialog.getExistingDirectory may return; <<>> is a cancelled dialog
ExplorerFolders == {<<>>, <<"A">>, <<"A", "s">>, <<"B">>, <<"C">>}

NoFile == [dir |-> <<>>, root |-> "", ext |-> "", good |-> FALSE]

IsPrefix(p, q) == Len(p) <= Len(q) /\ SubSeq(q, 1, Len(p)) = p

lower(ext) == IF ext = ".CSV" THEN ".csv" ELSE ext

\* the .csv files os.walk(folder) finds on disk d, in order
csv_files(folder, d) ==
    SelectSeq(ExplorerFiles,
              LAMBDA f : f \in d /\ IsPrefix(folder, f.dir) /\ lower(f.ext) = ".csv")

\* the display: what is plotted, the three buttons, the last message box
Display ==
    [visualizer |-> visualizer, prev |-> prev_button, next |-> next_button,
     delete |-> delete_button, dialog |-> dialog]

Show(r) ==
    /\ visualizer' = r.visualizer
    /\ prev_button' = r.prev
    /\ next_button' = r.next
    /\ delete_button' = r.delete
    /\ dialog' = r.dialog

clear_display(old) == [old EXCEPT !.visualizer = NoFile, !.delete = FALSE]

\* the list index is zero-based: data_files[current_index] is files[idx + 1]
load_current_file(files, idx, d, old) ==
    IF 0 <= idx /\ idx < Len(files)
    THEN IF files[idx + 1] \in d /\ files[idx + 1].good
         THEN [visualizer |-> files[idx + 1], prev |-> idx > 0,
               next |-> idx < Len(files) - 1, delete |-> TRUE, dialog |-> old.dialog]
         ELSE clear_display([old EXCEPT !.dialog = "Could not load file"])
    ELSE old

open_folder(folder) ==
    /\ IF folder # <<>>
       THEN /\ current_folder' = folder
            /\ data_files' = csv_files(folder, disk)
            /\ IF data_files' # <<>>
               THEN /\ current_index' = 0
                    /\ Show(load_current_file(data_files', 0, disk,
                                              [Display EXCEPT !.dialog = "none"]))
               ELSE /\ current_index' = -1
                    /\ Show(clear_display([Display EXCEPT !.dialog = "No Files"]))
       ELSE /\ dialog' = "none"
            /\ UNCHANGED <<current_folder, data_files, current_index, visualizer,
                           prev_button, next_button, delete_button>>
    /\ UNCHANGED disk
    /\ UNCHANGED <<BatchVars, app, RecorderVars, SerialVars, UserVars>>

\* the button or the left arrow key; the key works whatever the button's state
prev_file ==
    /\ IF current_index > 0
       THEN /\ current_index' = current_index - 1
            /\ Show(load_current_file(data_files, current_index', disk,
                                      [Display EXCEPT !.dialog = "none"]))
       ELSE /\ dialog' = "none"
            /\ UNCHANGED <<current_index, visualizer, prev_button, next_button,
                           delete_button>>
    /\ UNCHANGED <<disk, current_folder, data_files>>
    /\ UNCHANGED <<BatchVars, app, RecorderVars, SerialVars, UserVars>>

next_file ==
    /\ IF current_index < Len(data_files) - 1
       THEN /\ current_index' = current_index + 1
            /\ Show(load_current_file(data_files, current_index', disk,
                                      [Display EXCEPT !.dialog = "none"]))
       ELSE /\ dialog' = "none"
            /\ UNCHANGED <<current_index, visualizer, prev_button, next_button,
                           delete_button>>
    /\ UNCHANGED <<disk, current_folder, data_files>>
    /\ UNCHANGED <<BatchVars, app, RecorderVars, SerialVars, UserVars>>

Without(files, i) == SubSeq(files, 1, i - 1) \o SubSeq(files, i + 1, Len(files))

index_left_alone(files, idx) == idx

index_after_delete(files, idx) == IF idx >= Len(files) THEN Len(files) - 1 ELSE idx

\* a click on delete_button; reply is the answer to the question and removed
\* whether os.remove returns rather than raises
delete_current_file(reply, removed) ==
    /\ delete_button
    /\ IF 0 <= current_index /\ current_index < Len(data_files)
       THEN IF reply = "Yes"
            THEN IF removed
                 THEN /\ disk' = disk \ {data_files[current_index + 1]}
                      /\ data_files' = Without(data_files, current_index + 1)
                      /\ IF data_files' # <<>>
                         THEN /\ current_index' =
                                     index_after_delete(data_files', current_index)
                              /\ Show(load_current_file(
                                     data_files', current_index', disk',
                                     [Display EXCEPT !.dialog = "Confirm Delete"]))
                         ELSE /\ current_index' = -1
                              /\ Show(clear_display(
                                     [Display EXCEPT !.dialog = "No more files in folder"]))
                 ELSE /\ dialog' = "Could not delete file"
                      /\ UNCHANGED <<disk, data_files, current_index, visualizer,
                                     prev_button, next_button, delete_button>>
            ELSE /\ dialog' = "Confirm Delete"
                 /\ UNCHANGED <<disk, data_files, current_index, visualizer,
                                prev_button, next_button, delete_button>>
       ELSE /\ dialog' = "none"
            /\ UNCHANGED <<disk, data_files, current_index, visualizer,
                           prev_button, next_button, delete_button>>
    /\ UNCHANGED current_folder
    /\ UNCHANGED <<BatchVars, app, RecorderVars, SerialVars, UserVars>>

ExplorerIdle ==
    /\ disk = {}
    /\ current_folder = <<>>
    /\ data_files = <<>>
    /\ current_index = -1
    /\ visualizer = NoFile
    /\ prev_button = TRUE
    /\ next_button = TRUE
    /\ delete_button = TRUE
    /\ dialog = "none"

\* DataExplorer.__init__, on a disk that holds the files
ExplorerInit ==
    /\ disk = {ExplorerFiles[i] : i \in 1..Len(ExplorerFiles)}
    /\ current_folder = <<>>
    /\ data_files = <<>>
    /\ current_index = -1
    /\ visualizer = NoFile
    /\ prev_button = TRUE
    /\ next_button = TRUE
    /\ delete_button = TRUE
    /\ dialog = "none"

(***************************************************************************)
(* The collection apps: DataRecorder and the recording controls of         *)
(* main.py (MainWindow) and main2.py (AirWritingSystem)                    *)
(***************************************************************************)
MaxEvents == 5

\* the lists the serial threads emit: seven numbers; the last one is x7
Samples == {<<1, 2, 3, 4, 5, 6, 7>>, <<1, 2, 3, 4, 5, 6, 8>>, <<0, 0, 9, 0, 0, 0, 7>>}

\* time.time(), counted in the events handled so far
now == Len(events)

kept_buffer(buffer) == buffer

\* start_recording: self.data_buffer = []
fresh_buffer(buffer) == <<>>

\* main.py add_data: [timestamp] + data
add_data(data) == Append(data_buffer, <<now - start_time>> \o data)

\* main2.py add_data_point: a dict of the timestamp, the user, the hand and
\* six of the seven values
add_data_point(data) ==
    Append(data_buffer,
           [timestamp |-> now - start_time, user_id |-> user_id_label,
            hand_preference |-> "Right Hand",
            accel_x |-> data[1], accel_y |-> data[2], accel_z |-> data[3],
            gyro_x |-> data[4], gyro_y |-> data[5], gyro_z |-> data[6]])

Handed(e) == events' = Append(events, e)

\* main.py: a click on record_button; reply answers "Do you want to save this
\* recording?" and saved is what save_data returns
toggle_recording(reply, saved) ==
    /\ app = "main.py"
    /\ record_button.enabled
    /\ Len(events) < MaxEvents
    /\ IF ~recording
       THEN IF user_id_label = "Not registered"
            THEN /\ message' = "Please register a user first"
                 /\ UNCHANGED <<recording, data_buffer, start_time, events, record_button>>
            ELSE /\ recording' = TRUE
                 /\ data_buffer' = fresh_buffer(data_buffer)
                 /\ start_time' = now
                 /\ Handed([op |-> "start", data |-> <<>>])
                 /\ record_button' = [record_button EXCEPT !.text = "Stop Recording"]
                 /\ message' = "Recording"
       ELSE /\ recording' = FALSE
            /\ Handed([op |-> "stop", data |-> <<>>])
            /\ message' = IF Len(data_buffer) > 0
                          THEN IF reply = "Yes"
                               THEN IF saved THEN "Data saved" ELSE "Failed to save data"
                               ELSE "Save Recording"
                          ELSE "Not recording"
            /\ record_button' = [record_button EXCEPT !.text = "Start Recording"]
            /\ UNCHANGED <<data_buffer, start_time>>
    /\ UNCHANGED <<app, start_button, stop_button, inputs, user_id_label>>
    /\ UNCHANGED <<BatchVars, ExplorerVars, SerialVars, UserVars>>

\* main.py: the slot of data_received
update_data(data) ==
    /\ app = "main.py"
    /\ Len(events) < MaxEvents
    /\ Handed([op |-> "data", data |-> data])
    /\ data_buffer' = IF recording THEN add_data(data) ELSE data_buffer
    /\ UNCHANGED <<app, recording, start_time, record_button, start_button, stop_button,
                   inputs, user_id_label, message>>
    /\ UNCHANGED <<BatchVars, ExplorerVars, SerialVars, UserVars>>

AllInputs(b) == [alphabet_combo |-> b, hand_combo |-> b, username_input |-> b]

\* main2.py: a click on start_button
start_recording ==
    /\ app = "main2.py"
    /\ start_button
    /\ Len(events) < MaxEvents
    /\ IF serial_port # "open"
       THEN /\ message' = "Device not connected. Please connect first."
            /\ UNCHANGED <<recording, data_buffer, start_time, events, start_button,
                           stop_button, inputs>>
       ELSE IF user_id_label = "Not registered"
            THEN /\ message' = "Please register a user first."
                 /\ UNCHANGED <<recording, data_buffer, start_time, events, start_button,
                                stop_button, inputs>>
            ELSE /\ recording' = TRUE
                 /\ data_buffer' = fresh_buffer(data_buffer)
                 /\ start_time' = now
                 /\ Handed([op |-> "start", data |-> <<>>])
                 /\ start_button' = FALSE
                 /\ stop_button' = TRUE
                 /\ inputs' = AllInputs(FALSE)
                 /\ message' = "Recording"
    /\ UNCHANGED <<app, record_button, user_id_label>>
    /\ UNCHANGED <<BatchVars, ExplorerVars, SerialVars, UserVars>>

\* main2.py: a click on stop_button; reply answers "Save recording ...?" and
\* saved is what save_recording returns
stop_recording(reply, saved) ==
    /\ app = "main2.py"
    /\ stop_button
    /\ Len(events) < MaxEvents
    /\ IF ~recording
       THEN UNCHANGED <<recording, events, start_button, stop_button, inputs, message>>
       ELSE /\ recording' = FALSE
            /\ Handed([op |-> "stop", data |-> <<>>])
            /\ IF Len(data_buffer) > 0
               THEN /\ start_button' = TRUE
                    /\ stop_button' = FALSE
                    /\ inputs' = AllInputs(TRUE)
                    /\ message' = IF reply = "Yes"
                                  THEN IF saved THEN "Recording saved and synced"
                                                ELSE "Failed to save recording"
                                  ELSE "Recording discarded"
               ELSE UNCHANGED <<start_button, stop_button, inputs, message>>
    /\ UNCHANGED <<app, data_buffer, start_time, record_button, user_id_label>>
    /\ UNCHANGED <<BatchVars, ExplorerVars, SerialVars, UserVars>>

\* main2.py: the slot of data_received
process_serial_data(data) ==
    /\ app = "main2.py"
    /\ Len(events) < MaxEvents
    /\ Handed([op |-> "data", data |-> data])
    /\ data_buffer' = IF recording THEN add_data_point(data) ELSE data_buffer
    /\ UNCHANGED <<app, recording, start_time, record_button, start_button, stop_button,
                   inputs, user_id_label, message>>
    /\ UNCHANGED <<BatchVars, ExplorerVars, SerialVars, UserVars>>

RecorderIdle ==
    /\ recording = FALSE
    /\ data_buffer = <<>>
    /\ start_time = 0
    /\ events = <<>>
    /\ record_button = [enabled |-> FALSE, text |-> "Start Recording"]
    /\ start_button = FALSE
    /\ stop_button = FALSE
    /\ inputs = AllInputs(TRUE)
    /\ user_id_label = "Not registered"
    /\ message = "Ready"

\* either app with a device connected, before or after a user registered
RecorderInit ==
    /\ app \in {"main.py", "main2.py"}
    /\ recording = FALSE
    /\ data_buffer = <<>>
    /\ start_time = 0
    /\ events = <<>>
    /\ user_id_label \in {"Not registered", "1b9d6bcd"}
    /\ record_button = [enabled |-> app = "main.py", text |-> "Start Recording"]
    /\ start_button = (app = "main2.py" /\ user_id_label # "Not registered")
    /\ stop_button = FALSE
    /\ inputs = AllInputs(TRUE)
    /\ message = "Ready"

RecorderNext ==
    \/ \E reply \in {"Yes", "No"}, saved \in BOOLEAN : toggle_recording(reply, saved)
    \/ \E data \in Samples : update_data(data)
    \/ start_recording
    \/ \E reply \in {"Yes", "No"}, saved \in BOOLEAN : stop_recording(reply, saved)
    \/ \E data \in Samples : process_serial_data(data)

(***************************************************************************)
(* The collection apps: the serial thread and the connect button of        *)
(* main.py (SerialThread, MainWindow) and main2.py (SerialReaderThread,    *)
(* AirWritingSystem).  The thread and the window run concurrently: run()   *)
(* and the disconnecting handlers advance one attribute access at a time.  *)
(***************************************************************************)
MaxQueue == 2

\* port_combo.currentText(): nothing, a port that opens, a port that does not
Ports == {"", "COM3", "COM9"}

\* what in_waiting and readline can do on an open port
Reads == IF device = "faulty" THEN {"line", "nothing", "raise"} ELSE {"line", "nothing"}

Emit(signal) == queue' = Append(queue, signal)

\* main.py: a click on connect_button, up to the first step of disconnect_device
main_toggle_connection(port) ==
    /\ app = "main.py"
    /\ gpc = "idle"
    /\ IF serial_port = "None"
       THEN IF port = ""
            THEN UNCHANGED <<serial_port, running, tpc, gpc, connect_button,
                             status_label, record_button>>
            ELSE IF port = "COM3"
                 THEN /\ serial_port' = "open"
                      /\ running' = TRUE
                      /\ status_label' = "Connected to"
                      /\ tpc' = IF tpc = "stopped" THEN "while" ELSE tpc
                      /\ connect_button' = "Disconnect"
                      /\ record_button' = [record_button EXCEPT !.enabled = TRUE]
                      /\ UNCHANGED gpc
                 ELSE /\ status_label' = "Error"
                      /\ connect_button' = "Connect"
                      /\ record_button' =
                            IF connect_button = "Disconnect"
                            THEN [record_button EXCEPT !.enabled = FALSE]
                            ELSE record_button
                      /\ UNCHANGED <<serial_port, running, tpc, gpc>>
       ELSE IF serial_port = "open"
            THEN /\ running' = FALSE
                 /\ gpc' = "close"
                 /\ UNCHANGED <<serial_port, tpc, connect_button, status_label,
                                record_button>>
            ELSE /\ connect_button' = "Connect"
                 /\ record_button' = [record_button EXCEPT !.enabled = FALSE]
                 /\ UNCHANGED <<serial_port, running, tpc, gpc, status_label>>
    /\ UNCHANGED <<app, device, queue, recording, data_buffer, start_time, events,
                   start_button, stop_button, inputs, user_id_label, message>>
    /\ UNCHANGED <<BatchVars, ExplorerVars, UserVars>>

\* main.py: the rest of disconnect_device and of the click that called it
disconnect_device ==
    /\ app = "main.py"
    /\ \/ /\ gpc = "close"
          /\ serial_port' = "closed"
          /\ gpc' = "clear"
          /\ UNCHANGED <<connect_button, status_label, record_button>>
       \/ /\ gpc = "clear"
          /\ serial_port' = "None"
          /\ status_label' = "Disconnected"
          /\ connect_button' = "Connect"
          /\ record_button' = [record_button EXCEPT !.enabled = FALSE]
          /\ gpc' = "idle"
    /\ UNCHANGED <<app, device, running, tpc, queue, recording, data_buffer, start_time,
                   events, start_button, stop_button, inputs, user_id_label, message>>
    /\ UNCHANGED <<BatchVars, ExplorerVars, UserVars>>

\* main.py: the except branch of run()
main_except ==
    /\ Len(queue) < MaxQueue
    /\ Emit("Error")
    /\ running' = FALSE
    /\ tpc' = "stopped"

\* main.py: one step of SerialThread.run()
main_run ==
    /\ app = "main.py"
    /\ \/ /\ tpc = "while"
          /\ tpc' = IF running THEN "port" ELSE "stopped"
          /\ UNCHANGED <<running, queue>>
       \/ /\ tpc = "port"
          /\ tpc' = IF serial_port # "None" THEN "in_waiting" ELSE "while"
          /\ UNCHANGED <<running, queue>>
       \/ /\ tpc = "in_waiting"
          /\ IF serial_port = "open"
             THEN \E r \in Reads :
                     IF r = "raise" THEN main_except
                     ELSE /\ tpc' = IF r = "line" THEN "readline" ELSE "while"
                          /\ UNCHANGED <<running, queue>>
             ELSE main_except
       \/ /\ tpc = "readline"
          /\ IF serial_port = "open"
             THEN \E r \in Reads :
                     IF r = "raise" THEN main_except
                     ELSE /\ tpc' = "while"
                          /\ IF r = "line"
                             THEN Len(queue) < MaxQueue /\ Emit("data")
                             ELSE UNCHANGED queue
                          /\ UNCHANGED running
             ELSE main_except
    /\ UNCHANGED <<app, device, serial_port, gpc, connect_button, status_label, RecorderVars>>
    /\ UNCHANGED <<BatchVars, ExplorerVars, UserVars>>

\* main.py: a queued signal reaches its slot, update_data or
\* update_connection_status; no recording runs here, so update_data only plots
main_deliver ==
    /\ app = "main.py"
    /\ gpc = "idle"
    /\ queue # <<>>
    /\ ~recording
    /\ queue' = Tail(queue)
    /\ IF Head(queue) = "data"
       THEN UNCHANGED <<status_label, connect_button, record_button>>
       ELSE /\ status_label' = Head(queue)
            /\ connect_button' = "Connect"
            /\ record_button' = IF connect_button = "Disconnect"
                                THEN [record_button EXCEPT !.enabled = FALSE]
                                ELSE record_button
    /\ UNCHANGED <<app, device, serial_port, running, tpc, gpc, recording, data_buffer,
                   start_time, events, start_button, stop_button, inputs, user_id_label,
                   message>>
    /\ UNCHANGED <<BatchVars, ExplorerVars, UserVars>>

\* main2.py: a click on connect_button, up to the first step of stop()
main2_toggle_connection(port) ==
    /\ app = "main2.py"
    /\ gpc = "idle"
    /\ IF serial_port = "open"
       THEN /\ running' = FALSE
            /\ gpc' = "close"
            /\ UNCHANGED <<serial_port, connect_button, status_label, start_button, message>>
       ELSE IF port = ""
            THEN /\ message' = "No port selected"
                 /\ UNCHANGED <<serial_port, running, gpc, connect_button, status_label,
                                start_button>>
            ELSE IF port = "COM3"
                 THEN /\ serial_port' = "open"
                      /\ connect_button' = "Disconnect"
                      /\ status_label' = "Connected"
                      /\ start_button' = IF user_id_label # "Not registered"
                                         THEN TRUE ELSE start_button
                      /\ message' = "Connected to"
                      /\ UNCHANGED <<running, gpc>>
                 ELSE /\ serial_port' = "None"
                      /\ message' = "Failed to connect to"
                      /\ UNCHANGED <<running, gpc, connect_button, status_label, start_button>>
    /\ UNCHANGED <<app, device, tpc, queue, recording, data_buffer, start_time, events,
                   record_button, stop_button, inputs, user_id_label>>
    /\ UNCHANGED <<BatchVars, ExplorerVars, UserVars>>

\* main2.py: the rest of stop() and of the click that called it; wait()
\* returns when run() has returned, and a new thread object is started
stop ==
    /\ app = "main2.py"
    /\ \/ /\ gpc = "close"
          /\ serial_port' = IF serial_port = "open" THEN "closed" ELSE serial_port
          /\ gpc' = "clear"
          /\ UNCHANGED <<running, tpc, connect_button, status_label, start_button, message>>
       \/ /\ gpc = "clear"
          /\ serial_port' = "None"
          /\ gpc' = "wait"
          /\ UNCHANGED <<running, tpc, connect_button, status_label, start_button, message>>
       \/ /\ gpc = "wait"
          /\ tpc = "stopped"
          /\ serial_port' = "None"
          /\ running' = FALSE
          /\ tpc' = "run"
          /\ connect_button' = "Connect"
          /\ status_label' = "Disconnected"
          /\ start_button' = FALSE
          /\ message' = "Device disconnected"
          /\ gpc' = "idle"
    /\ UNCHANGED <<app, device, queue, recording, data_buffer, start_time, events,
                   record_button, stop_button, inputs, user_id_label>>
    /\ UNCHANGED <<BatchVars, ExplorerVars, UserVars>>

\* main2.py: the outer except branch of run()
main2_except ==
    /\ Len(queue) < MaxQueue
    /\ Emit("Read error")
    /\ serial_port' = "None"
    /\ tpc' = "while"

\* main2.py: one step of SerialReaderThread.run()
main2_run ==
    /\ app = "main2.py"
    /\ \/ /\ tpc = "run"
          /\ running' = TRUE
          /\ tpc' = "while"
          /\ UNCHANGED <<serial_port, queue>>
       \/ /\ tpc = "while"
          /\ tpc' = IF ~running THEN "stopped"
                    ELSE IF serial_port = "None" THEN "while" ELSE "is_open"
          /\ UNCHANGED <<serial_port, running, queue>>
       \/ /\ tpc = "is_open"
          /\ IF serial_port = "None" THEN main2_except
             ELSE /\ tpc' = IF serial_port = "open" THEN "in_waiting" ELSE "while"
                  /\ UNCHANGED <<serial_port, queue>>
          /\ UNCHANGED running
       \/ /\ tpc = "in_waiting"
          /\ IF serial_port = "open"
             THEN \E r \in Reads :
                     IF r = "raise" THEN main2_except
                     ELSE /\ tpc' = IF r = "line" THEN "readline" ELSE "while"
                          /\ UNCHANGED <<serial_port, queue>>
             ELSE main2_except
          /\ UNCHANGED running
       \/ /\ tpc = "readline"
          /\ IF serial_port = "open"
             THEN \E r \in Reads :
                     IF r = "raise" THEN main2_except
                     ELSE /\ tpc' = "while"
                          /\ IF r = "line"
                             THEN Len(queue) < MaxQueue /\ Emit("data")
                             ELSE UNCHANGED queue
                          /\ UNCHANGED serial_port
             ELSE main2_except
          /\ UNCHANGED running
    /\ UNCHANGED <<app, device, gpc, connect_button, status_label, RecorderVars>>
    /\ UNCHANGED <<BatchVars, ExplorerVars, UserVars>>

\* main2.py: a queued signal reaches its slot, process_serial_data or
\* show_error_message; no recording runs here, so process_serial_data only plots
main2_deliver ==
    /\ app = "main2.py"
    /\ gpc = "idle"
    /\ queue # <<>>
    /\ ~recording
    /\ queue' = Tail(queue)
    /\ message' = IF Head(queue) = "data" THEN message ELSE Head(queue)
    /\ UNCHANGED <<app, device, serial_port, running, tpc, gpc, connect_button, status_label,
                   recording, data_buffer, start_time, events, record_button, start_button,
                   stop_button, inputs, user_id_label>>
    /\ UNCHANGED <<BatchVars, ExplorerVars, UserVars>>

SerialIdle ==
    /\ device = "healthy"
    /\ serial_port = "None"
    /\ running = FALSE
    /\ tpc = "stopped"
    /\ gpc = "idle"
    /\ queue = <<>>
    /\ connect_button = "Connect"
    /\ status_label = "Disconnected"

\* either app after its window was built; main2.py starts its thread there
SerialInit ==
    /\ app \in {"main.py", "main2.py"}
    /\ device \in {"healthy", "faulty"}
    /\ serial_port = "None"
    /\ running = FALSE
    /\ tpc = IF app = "main2.py" THEN "run" ELSE "stopped"
    /\ gpc = "idle"
    /\ queue = <<>>
    /\ connect_button = "Connect"
    /\ status_label = "Disconnected"
    /\ user_id_label \in {"Not registered", "1b9d6bcd"}
    /\ recording = FALSE
    /\ data_buffer = <<>>
    /\ start_time = 0
    /\ events = <<>>
    /\ record_button = [enabled |-> FALSE, text |-> "Start Recording"]
    /\ start_button = FALSE
    /\ stop_button = FALSE
    /\ inputs = AllInputs(TRUE)
    /\ message = "Ready"

\* a device is connected and its thread runs
SerialConnected ==
    /\ device = "healthy"
    /\ serial_port \in IF app = "main2.py" THEN {"open", "None"} ELSE {"open"}
    /\ running = TRUE
    /\ tpc = "while"
    /\ gpc = "idle"
    /\ queue = <<>>
    /\ connect_button = "Disconnect"
    /\ status_label = "Connected"

SerialNext ==
    \/ \E port \in Ports : main_toggle_connection(port)
    \/ disconnect_device
    \/ main_run
    \/ main_deliver
    \/ \E port \in Ports : main2_toggle_connection(port)
    \/ stop
    \/ main2_run
    \/ main2_deliver

(***************************************************************************)
(* The collection apps: UserManager and the Register button.  The class is *)
(* the same in main.py and main2.py but for the encoding of the file.      *)
(* Text is a sequence of characters; "q" stands for the double quote.      *)
(***************************************************************************)
MaxCalls == 4

\* what username_input may hold
Texts == {<<>>, <<" ">>, <<" ", "a", " ">>, <<"a">>, <<"a", ",", "b">>, <<"q", "a">>}

\* str(uuid.uuid4())[:8]: any of these, a used one included
Ids == {<<"1b9d6bcd">>, <<"6ec0bd7f">>}

RECURSIVE strip(_)
strip(text) ==
    IF text = <<>> THEN text
    ELSE IF Head(text) = " " THEN strip(Tail(text))
    ELSE IF text[Len(text)] = " " THEN strip(SubSeq(text, 1, Len(text) - 1))
    ELSE text

RECURSIVE Doubled(_)
Doubled(field) ==
    IF field = <<>> THEN <<>>
    ELSE (IF Head(field) = "q" THEN <<"q", "q">> ELSE <<Head(field)>>) \o Doubled(Tail(field))

\* csv.writer: a field with a comma or a quote is quoted, its quotes doubled
Field(field) ==
    IF \E i \in 1..Len(field) : field[i] \in {",", "q"}
    THEN <<"q">> \o Doubled(field) \o <<"q">>
    ELSE field

writerow(row) == Field(row[1]) \o <<",">> \o Field(row[2])

RECURSIVE SplitFrom(_, _, _, _)
SplitFrom(line, i, cur, acc) ==
    IF i > Len(line) THEN Append(acc, cur)
    ELSE IF line[i] = "," THEN SplitFrom(line, i + 1, <<>>, Append(acc, cur))
    ELSE SplitFrom(line, i + 1, Append(cur, line[i]), acc)

\* a reader that splits at every comma
split_row(line) == IF line = <<>> THEN <<>> ELSE SplitFrom(line, 1, <<>>, <<>>)

RECURSIVE ReadFrom(_, _, _, _, _)
ReadFrom(line, i, inquotes, cur, acc) ==
    IF i > Len(line) THEN Append(acc, cur)
    ELSE IF inquotes
         THEN IF line[i] = "q"
              THEN IF i < Len(line) /\ line[i + 1] = "q"
                   THEN ReadFrom(line, i + 2, TRUE, Append(cur, "q"), acc)
                   ELSE ReadFrom(line, i + 1, FALSE, cur, acc)
              ELSE ReadFrom(line, i + 1, TRUE, Append(cur, line[i]), acc)
         ELSE IF line[i] = "," THEN ReadFrom(line, i + 1, FALSE, <<>>, Append(acc, cur))
              ELSE IF line[i] = "q" /\ cur = <<>> THEN ReadFrom(line, i + 1, TRUE, cur, acc)
              ELSE ReadFrom(line, i + 1, FALSE, Append(cur, line[i]), acc)

\* csv.reader on one line: the row's fields
read_row(line) == IF line = <<>> THEN <<>> ELSE ReadFrom(line, 1, FALSE, <<>>, <<>>)

HeaderRow == << <<"user_id">>, <<"username">> >>

RECURSIVE UsersFrom(_, _)
UsersFrom(rows, known) ==
    IF rows = <<>> THEN known
    ELSE UsersFrom(Tail(rows),
                   IF Len(Head(rows)) >= 2
                   THEN {u \in known : u.username # Head(rows)[2]}
                           \cup {[username |-> Head(rows)[2], user_id |-> Head(rows)[1]]}
                   ELSE known)

\* UserManager.__init__ when an app starts: load_users
load_users ==
    /\ app \in {"main.py", "main2.py"}
    /\ Len(calls) < MaxCalls
    /\ users' = IF users_file.exists /\ users_file.lines # <<>>
                THEN UsersFrom([i \in 1..(Len(users_file.lines) - 1) |->
                                   read_row(users_file.lines[i + 1])], {})
                ELSE {}
    /\ calls' = Append(calls, [op |-> "restart", username |-> <<>>, user_id |-> <<>>])
    /\ user_id_label' = "Not registered"
    /\ UNCHANGED <<app, users_file, recording, data_buffer, start_time, events, record_button,
                   start_button, stop_button, inputs, message>>
    /\ UNCHANGED <<BatchVars, ExplorerVars, SerialVars>>

\* a click on Register with text in username_input: the window's register_user
\* and, for a username, UserManager.register_user with uuid as the id drawn
register_user(text, uuid) ==
    /\ app \in {"main.py", "main2.py"}
    /\ Len(calls) < MaxCalls
    /\ IF strip(text) = <<>>
       THEN /\ message' = "Please enter a username"
            /\ UNCHANGED <<users, users_file, calls, user_id_label, record_button, start_button>>
       ELSE /\ IF \E u \in users : u.username = strip(text)
               THEN /\ calls' = Append(calls,
                           [op |-> "register", username |-> strip(text),
                            user_id |-> (CHOOSE u \in users : u.username = strip(text)).user_id])
                    /\ UNCHANGED <<users, users_file>>
               ELSE /\ users' = users \cup {[username |-> strip(text), user_id |-> uuid]}
                    /\ users_file' =
                          [exists |-> TRUE,
                           lines |-> users_file.lines
                                     \o (IF users_file.lines = <<>>
                                         THEN <<writerow(HeaderRow)>> ELSE <<>>)
                                     \o <<writerow(<<uuid, strip(text)>>)>>]
                    /\ calls' = Append(calls, [op |-> "register", username |-> strip(text),
                                               user_id |-> uuid])
            /\ user_id_label' = calls'[Len(calls')].user_id[1]
            /\ record_button' = IF app = "main.py"
                                THEN [record_button EXCEPT !.enabled = serial_port # "None"]
                                ELSE record_button
            /\ start_button' = IF app = "main2.py" /\ serial_port = "open"
                               THEN TRUE ELSE start_button
            /\ message' = IF app = "main2.py" THEN "User registered" ELSE message
    /\ UNCHANGED <<app, recording, data_buffer, start_time, events, stop_button, inputs>>
    /\ UNCHANGED <<BatchVars, ExplorerVars, SerialVars>>

UserIdle ==
    /\ users = {}
    /\ users_file = [exists |-> FALSE, lines |-> <<>>]
    /\ calls = <<>>

\* either app just started, with no users.csv or an empty one
UserInit ==
    /\ app \in {"main.py", "main2.py"}
    /\ users = {}
    /\ users_file \in {[exists |-> b, lines |-> <<>>] : b \in BOOLEAN}
    /\ calls = <<>>

UserNext ==
    \/ load_users
    \/ \E text \in Texts, uuid \in Ids : register_user(text, uuid)

AppIdle == ExplorerIdle /\ app = "none" /\ RecorderIdle /\ SerialIdle /\ UserIdle

(***************************************************************************)
(* Specifications                                                          *)
(***************************************************************************)
vars == <<FeatVars, NormVars, LeakyVars, PureVars, AppVars>>

FeatNext == FeatDir \/ FeatFile
NormNext == NormStart \/ NormFolder \/ NormFile
LeakyNext == LeakyApply
PureNext ==
    \/ ApplyDataframe
    \/ ApplyWindow
    \/ ApplyWindowAgain
    \/ ApplyTimeDomain
    \/ ApplyWindowed
    \/ ApplyPreprocess

\* a batch run: the feature driver or the normalizer script, on a tree
Init ==
    \/ FeatInit /\ NormIdle /\ LeakyIdle /\ PureIdle /\ AppIdle
    \/ NormInit /\ FeatIdle /\ LeakyIdle /\ PureIdle /\ AppIdle
InitLeaky == LeakyInit /\ FeatIdle /\ NormIdle /\ PureIdle /\ AppIdle
InitPure == PureInit /\ FeatIdle /\ NormIdle /\ LeakyIdle /\ AppIdle

Spec == Init /\ [][FeatNext \/ NormNext]_vars

\* a batch run over a tree that holds the outputs of an earlier run
InitRerun ==
    \/ FeatRerunInit /\ NormIdle /\ LeakyIdle /\ PureIdle /\ AppIdle
    \/ NormRerunInit /\ FeatIdle /\ LeakyIdle /\ PureIdle /\ AppIdle

SpecRerun == InitRerun /\ [][FeatNext \/ NormNext]_vars

\* a repeated batch run with the output root inside the input root
InitNested ==
    \/ FeatNestedInit /\ NormIdle /\ LeakyIdle /\ PureIdle /\ AppIdle
    \/ NormRerunInit /\ FeatIdle /\ LeakyIdle /\ PureIdle /\ AppIdle

SpecNested == InitNested /\ [][FeatNext \/ NormNext]_vars

\* a run of the feature driver whose loop goes on: every call of an
\* iteration returns or raises.  The second fairness condition is
\* WF_vars(FeatNext) with ENABLED <<FeatNext>>_vars written out: the loop
\* can step exactly while fpc is "walk" or "file".
InitFeat == FeatInit /\ NormIdle /\ LeakyIdle /\ PureIdle /\ AppIdle
SpecFeatLive ==
    /\ InitFeat
    /\ [][FeatNext]_vars
    /\ WF_vars(FeatDir)
    /\ ([]<>(fpc \notin {"walk", "file"}) \/ []<><<FeatNext>>_vars)

\* the recording explorer in the hands of its user
ExplorerNext ==
    \/ \E folder \in ExplorerFolders : open_folder(folder)
    \/ prev_file
    \/ next_file
    \/ \E reply \in {"Yes", "No"}, removed \in BOOLEAN : delete_current_file(reply, removed)
InitExplorer == ExplorerInit /\ BatchIdle /\ app = "none" /\ RecorderIdle /\ SerialIdle /\ UserIdle
SpecExplorer == InitExplorer /\ [][ExplorerNext]_vars

\* the recorder of either collection app, handed starts, stops and samples
InitRecorder == RecorderInit /\ SerialConnected /\ UserIdle /\ BatchIdle /\ ExplorerIdle
SpecRecorder == InitRecorder /\ [][RecorderNext]_vars

\* the window and the serial thread of either collection app
InitSerial == SerialInit /\ UserIdle /\ BatchIdle /\ ExplorerIdle
SpecSerial == InitSerial /\ [][SerialNext]_vars

\* registrations in either collection app, over restarts of the app
InitUsers == UserInit /\ RecorderIdle /\ SerialIdle /\ BatchIdle /\ ExplorerIdle
SpecUsers == InitUsers /\ [][UserNext]_vars

\* leaky_integrator applied to a signal
SpecLeaky == InitLeaky /\ [][LeakyNext]_vars

\* the pure functions applied to a recording
SpecPure == InitPure /\ [][PureNext]_vars

(***************************************************************************)
(* Properties                                                              *)
(***************************************************************************)
\* the keys of the feature row of a window with NumCoeffs spectrum bins, in
\* the order the groups insert them
FeatureKeys ==
    Keys(extract_features_from_window(
             Rows([cols |-> AllColumns, n |-> 2 * NumCoeffs, content |-> "generic"])).val)

\* C1: for a recording of n rows and any window_size W >= 1,
\* extract_features_from_dataframe returns floor(n / W) feature rows, and
\* row k is the feature row of input rows [k*W, (k+1)*W) in their order, so
\* that windows do not overlap and the last n mod W rows are in no window.
C1_WindowingAtEveryWindowSize ==
    fx_table # Pending =>
        /\ fx_table.exc = "none"
        /\ Len(fx_table.val.rows) = fx_file.n \div fx_window_size
        /\ \A k \in 0..(fx_file.n \div fx_window_size - 1) :
              LET features == extract_features_from_window(
                                  SubSeq(Rows(fx_file), k * fx_window_size + 1,
                                         (k + 1) * fx_window_size))
              IN  /\ features.exc = "none"
                  /\ fx_table.val.rows[k + 1] = features.val

\* C3: for every window_size W >= 1 and every window of W samples,
\* extract_features_from_window does not raise and returns a mapping with
\* exactly the fixed keys, none absent and none overwritten, also when
\* W < 10 and when W = 1.
C3_FixedKeySetAtEveryWindowSize ==
    fx_vector # Pending =>
        /\ fx_vector.exc = "none"
        /\ Keys(fx_vector.val) = FeatureKeys
        /\ Cardinality(KeySet(fx_vector.val)) = Len(FeatureKeys)

\* C7: for a recording with the required columns and n rows, preprocess
\* returns a table with the columns x_norm, y_norm, z_norm and n rows, also
\* when n = 0 and when n = 1.
C7_PreprocessKeepsEveryRowCount ==
    fx_norm # Pending =>
        /\ fx_norm.exc = "none"
        /\ fx_norm.val.columns = <<"x_norm", "y_norm", "z_norm">>
        /\ Len(fx_norm.val.rows) = fx_file.n

\* C8: for any sequence x of length n and any lambda, leaky_integrator
\* returns s of length n with s[0] = x[0] and
\* s[i] = lambda * s[i-1] + (1 - lambda) * x[i] for i in 1..n-1.
C8_RecurrenceForAnySequence ==
    li_out # Pending =>
        /\ li_out.exc = "none"
        /\ Len(li_out.val) = Len(li_signal)
        /\ Len(li_signal) >= 1 => li_out.val[1] = ParseCell(li_signal[1])
        /\ \A i \in 2..Len(li_signal) :
              li_out.val[i] = FAdd(FMul(li_lambda, li_out.val[i - 1]),
                                   FMul(FSub(FOne, li_lambda), ParseCell(li_signal[i])))

\* the files the walk yields, each with the directory it is in
WalkedFiles ==
    UNION {{[dirpath |-> walk[i].dirpath, file |-> walk[i].filenames[j]] :
                j \in 1..Len(walk[i].filenames)} : i \in 1..Len(walk)}

\* the files of the listed character folders, each with its folder
ListedFiles ==
    UNION {{[char_folder |-> listing[i].name, file |-> listing[i].files[j]] :
                j \in 1..Len(listing[i].files)} : i \in 1..Len(listing)}

\* the file the feature driver is at, and the one the normalizer is at
AtWalkedFile == fpc = "file" /\ name_i <= Len(walk[dir_i].filenames)
AtListedFile == pc = "file" /\ file_i <= Len(listing[folder_i].files)
LacksColumn(file) == endswith_csv(file.name) /\ ~(RequiredColumns \subseteq file.cols)

\* C2: every file the feature driver writes has the fixed feature keys as
\* its header, in the same order, and floor(row_count / window_size) rows,
\* for every input with the required columns, also one with no window.
C2_HeaderAndRowCountOfEveryOutput ==
    \A w \in WalkedFiles : \A f \in fwritten :
        f.path = save_path(w.dirpath, w.file) =>
            /\ f.table.columns = FeatureKeys
            /\ Len(f.table.rows) = w.file.n \div window_size

\* C4: in either driver, the iteration over a file that lacks one of
\* acc_x, acc_y, acc_z writes no output and leaves the loop at the next
\* file, so the files after it are still processed.
C4_MissingColumnIsNotFatal ==
    [][/\ (AtWalkedFile /\ LacksColumn(walk[dir_i].filenames[name_i])) =>
              /\ fwritten' = fwritten
              /\ fpc' = "file" /\ dir_i' = dir_i /\ name_i' = name_i + 1
       /\ (AtListedFile /\ LacksColumn(listing[folder_i].files[file_i])) =>
              /\ written' = written
              /\ pc' = "file" /\ folder_i' = folder_i /\ file_i' = file_i + 1
      ]_vars

\* a file lacking a column was skipped and a later file was saved
C4_Witness ==
    \E i, j \in 1..Len(fconsole) :
        /\ i < j
        /\ fconsole[i].tag = "skipped"
        /\ fconsole[j].tag = "saved"

\* C5: in the feature driver, the iteration over a .csv file never leaves
\* the loop: it prints the file, then either saves, skips, or prints an
\* error with that file's path and the exception, and goes on to the next
\* file; when the traversal returns every .csv file has been taken up.
C5_FileExceptionsAreCaught ==
    [][/\ (AtWalkedFile /\ endswith_csv(walk[dir_i].filenames[name_i].name)) =>
              LET path == filepath(walk[dir_i].dirpath, walk[dir_i].filenames[name_i])
                  last == fconsole'[Len(fconsole')]
              IN  /\ fpc' = "file" /\ dir_i' = dir_i /\ name_i' = name_i + 1
                  /\ Len(fconsole') = Len(fconsole) + 2
                  /\ SubSeq(fconsole', 1, Len(fconsole)) = fconsole
                  /\ fconsole'[Len(fconsole) + 1].tag = "processing"
                  /\ fconsole'[Len(fconsole) + 1].path = path
                  /\ last.tag \in {"saved", "skipped", "error"}
                  /\ last.tag = "saved" => last.path \in Paths(fwritten')
                  /\ last.tag # "saved" => fwritten' = fwritten
                  /\ last.tag = "error" =>
                        last.path = path /\ last.msg \in ExceptionClasses
       /\ fpc' \in {"idle", "walk", "file", "done"}
       /\ fpc' = "done" =>
              \A w \in WalkedFiles :
                  endswith_csv(w.file.name) =>
                      \E i \in 1..Len(fconsole') :
                          /\ fconsole'[i].tag = "processing"
                          /\ fconsole'[i].path = filepath(w.dirpath, w.file)
      ]_vars

\* computing the features of a file raised, and a later file was saved
C5_Witness ==
    \E i, j \in 1..Len(fconsole) :
        /\ i < j
        /\ fconsole[i].tag = "error"
        /\ fconsole[i].msg = "IndexError"
        /\ fconsole[j].tag = "saved"

\* C6: in the normalizer, an I/O failure on a character folder (it cannot
\* be listed, or its output subfolder cannot be created) or on a file stops
\* only that input: the script goes on with the folders and files left.
C6_IOFailureStopsOnlyItsInput ==
    [][(pc = "folder" \/ pc = "file") => pc' \in {"folder", "file", "done"}]_vars

\* the normalized rows of an axis of a written table are all NaN
AllNaN(table, col) == \A i \in 1..Len(table.rows) : table.rows[i][col] = "NaN"
ConstantAxis(file, col) ==
    file.n >= 1 /\ \A i \in 1..file.n : Rows(file)[i][col] = Rows(file)[1][col]

\* C9: when an axis of a recording is constant, every element of that axis
\* in the normalizer's output is NaN, and the file is written all the same.
C9_ConstantAxisIsAllNaN ==
    \A l \in ListedFiles : \A f \in written :
        (f.path = output_path(l.char_folder, l.file) /\ RequiredColumns \subseteq l.file.cols) =>
            /\ ConstantAxis(l.file, "acc_x") => AllNaN(f.table, "x_norm")
            /\ ConstantAxis(l.file, "acc_y") => AllNaN(f.table, "y_norm")
            /\ ConstantAxis(l.file, "acc_z") => AllNaN(f.table, "z_norm")

\* the contents with a constant axis, all-zero samples or a sample of zero
\* magnitude
Degenerate(file) == file.content \in {"allzero", "constx", "zeromag"}

\* the features whose formula divides by a deviation, a magnitude or a sum
AffectedKeys ==
    {p \o a : p \in {"skewness_", "kurtosis_", "spectral_centroid_",
                     "spectral_entropy_", "tilt_", "autocorr_"},
              a \in {"x", "y", "z"}}
    \cup {"corr_xy", "corr_xz", "corr_yz", "magnitude_entropy"}

\* C10: a degenerate window never makes feature extraction raise: the file
\* it is in is not reported as an error of the computation, and what is
\* written for it has a complete row per window, with NaN only in the
\* affected features.
C10_DegenerateWindowsYieldRows ==
    \A w \in WalkedFiles :
        (endswith_csv(w.file.name) /\ Degenerate(w.file)) =>
            /\ \A i \in 1..Len(fconsole) :
                  (fconsole[i].tag = "error" /\ fconsole[i].path = filepath(w.dirpath, w.file))
                      => fconsole[i].msg = "OSError"
            /\ \A f \in fwritten :
                  f.path = save_path(w.dirpath, w.file) =>
                      /\ Len(f.table.rows) = w.file.n \div window_size
                      /\ \A k \in 1..Len(f.table.rows) :
                            /\ Keys(f.table.rows[k]) = FeatureKeys
                            /\ \A m \in 1..Len(f.table.rows[k]) :
                                  f.table.rows[k][m].value.nan =>
                                      f.table.rows[k][m].key \in AffectedKeys

\* a .csv file with the required columns and fewer rows than window_size
ShortFile(file) ==
    /\ endswith_csv(file.name)
    /\ RequiredColumns \subseteq file.cols
    /\ file.n < window_size

\* C11: the feature driver's iteration over a file with the required
\* columns and fewer rows than window_size never skips it and fails only
\* on an I/O error: it writes a table of zero rows, prints it as saved and
\* goes on to the next file.
C11_ShortFileIsSavedEmpty ==
    [][(AtWalkedFile /\ ShortFile(walk[dir_i].filenames[name_i])) =>
          LET entry == walk[dir_i]
              last == fconsole'[Len(fconsole')]
          IN  /\ fpc' = "file" /\ dir_i' = dir_i /\ name_i' = name_i + 1
              /\ last.tag \in {"saved", "error"}
              /\ last.tag = "error" => last.msg = "OSError"
              /\ last.tag = "saved" =>
                    /\ last.path = save_path(entry.dirpath, entry.filenames[name_i])
                    /\ \E f \in fwritten' :
                          /\ f.path = last.path
                          /\ f.table.rows = <<>>
      ]_vars

\* a file too short for a window was saved with no rows, and the driver
\* took up a later file
C11_Witness ==
    \E w \in WalkedFiles : \E f \in fwritten : \E i, j \in 1..Len(fconsole) :
        /\ ShortFile(w.file)
        /\ w.file.n >= 1
        /\ f.path = save_path(w.dirpath, w.file)
        /\ f.table.rows = <<>>
        /\ fconsole[i].tag = "saved" /\ fconsole[i].path = f.path
        /\ i < j /\ fconsole[j].tag = "processing"

\* the number of printed lines with the tag
Printed(lines, tag) == Cardinality({i \in 1..Len(lines) : lines[i].tag = tag})

\* C12: the output path of a file keeps its directory relative to the input
\* root under the output root and derives its name from the file's
\* (features_<name>, <root>_preprocessed<ext>); distinct input files have
\* distinct output paths, so every save of a run is a file of its own.
C12_OutputPathsMirrorAndNeverCollide ==
    /\ \A v, w \in WalkedFiles :
          v # w => PathText(save_path(v.dirpath, v.file)) # PathText(save_path(w.dirpath, w.file))
    /\ \A k, l \in ListedFiles :
          k # l => PathText(output_path(k.char_folder, k.file))
                       # PathText(output_path(l.char_folder, l.file))
    /\ \A f \in fwritten : \E w \in WalkedFiles :
          /\ f.path.dir = output_root \o w.dirpath
          /\ f.path.file.root \o f.path.file.ext = "features_" \o w.file.name.root \o w.file.name.ext
    /\ \A f \in written : \E l \in ListedFiles :
          /\ f.path.dir = BASE_DIR \o <<"preprocessed_data", l.char_folder>>
          /\ f.path.file.root = l.file.name.root \o "_preprocessed"
          /\ f.path.file.ext = l.file.name.ext
    /\ Cardinality(fwritten) = Printed(fconsole, "saved")
    /\ Cardinality(written) = Printed(console, "processed")

\* two files of the same name in different directories were both saved
C12_Witness ==
    \E f, g \in fwritten :
        /\ f.path.file = g.path.file
        /\ f.path.dir # g.path.dir

\* C13: a batch run only creates directories and files: a file that exists,
\* an output an earlier run left included, is never modified, overwritten
\* or deleted by a step of the run.
C13_ExistingFilesAreNeverTouched ==
    [][/\ \A f \in fwritten : f \in fwritten'
       /\ \A f \in written : f \in written'
       /\ fdirs \subseteq fdirs'
       /\ dirs \subseteq dirs']_vars

\* the lines printed about the path
Mentions(lines, tags, path) ==
    Cardinality({i \in 1..Len(lines) : lines[i].tag \in tags /\ lines[i].path = path})

\* C14: when a driver has finished, every .csv file below its input root,
\* directly in the root or nested in folders, has been processed exactly
\* once.
C14_EveryCsvAtEveryDepthOnce ==
    /\ fpc = "done" =>
          \A w \in WalkedFiles :
              endswith_csv(w.file.name) =>
                  Mentions(fconsole, {"processing"}, filepath(w.dirpath, w.file)) = 1
    /\ pc = "done" =>
          /\ \A l \in ListedFiles :
                endswith_csv(l.file.name) =>
                    Mentions(console, {"processed", "failed"},
                             [dir |-> BASE_DIR \o <<l.char_folder>>, file |-> l.file.name]) = 1
          /\ \A i \in 1..Len(listing) :
                (~listing[i].isdir /\ listing[i].ext = ".csv") =>
                    Mentions(console, {"processed", "failed"},
                             [dir |-> BASE_DIR, file |-> listing[i].name]) = 1

\* the recording has an empty cell in a required column
HasEmptyCell(file) ==
    \E i \in 1..file.n : \E c \in RequiredColumns \cap file.cols :
        Rows(file)[i][c] = NaNCell

\* C15: a recording with a missing or non-finite acc value is a content
\* error: neither a feature table nor a normalized table is computed from
\* it.
C15_NonFiniteInputIsAnError ==
    HasEmptyCell(fx_file) =>
        /\ fx_table.exc # "none"
        /\ fx_norm.exc # "none"

\* what is on disk of a file: its extension, columns, row count and samples
KindOf(file) ==
    [ext |-> file.name.ext, cols |-> file.cols, n |-> file.n, content |-> file.content]

\* the feature table of each kind of recording at each window size, and the
\* normalized table of each kind, computed from the recording alone
FeatOutputs ==
    [W \in WindowSizes |->
        [k \in FeatKinds(W) |-> extract_features_from_dataframe(read_csv(k), W)]]
NormOutputs == [k \in NormKinds |-> preprocess(read_csv(k))]

\* C16: the output written for a file is a function of that file's rows and
\* of the configuration only: it is the same wherever the file comes in the
\* traversal and whatever the other files are and whatever happens to them.
C16_OutputDependsOnlyOnItsFile ==
    [][/\ (AtWalkedFile /\ fwritten' # fwritten) =>
             LET entry == walk[dir_i]
                 file  == entry.filenames[name_i]
             IN  \E f \in fwritten' :
                    /\ f.path = save_path(entry.dirpath, file)
                    /\ f.table = FeatOutputs[window_size][KindOf(file)].val
       /\ (AtListedFile /\ written' # written) =>
             LET entry == listing[folder_i]
                 file  == entry.files[file_i]
             IN  \E f \in written' :
                    /\ f.path = output_path(entry.name, file)
                    /\ f.table = NormOutputs[KindOf(file)].val
      ]_vars

\* a file with feature rows was saved after another file failed or was
\* skipped
C16_Witness ==
    \E i, j \in 1..Len(fconsole) : \E f \in fwritten :
        /\ i < j
        /\ fconsole[i].tag \in {"error", "skipped"}
        /\ fconsole[j].tag = "saved"
        /\ fconsole[j].path = f.path
        /\ f.table.rows # <<>>

SignChanges(a) ==
    {i \in 1..(Len(a) - 1) :
        /\ a[i] # NaNCell /\ a[i + 1] # NaNCell
        /\ \/ a[i] > 0 /\ a[i + 1] < 0
           \/ a[i] < 0 /\ a[i + 1] > 0}
StrictlyAlternating(a) == SignChanges(a) = 1..(Len(a) - 1)

\* C18: for every window and axis, zero_crossing_rate is the number of
\* adjacent pairs of samples of opposite sign (a[i] * a[i+1] < 0): at most
\* W - 1, and W - 1 on an axis whose samples strictly alternate in sign.
C18_ZeroCrossingsCountSignChanges ==
    fx_time # Pending =>
        /\ fx_time.exc = "none"
        /\ \A j \in 1..3 :
              LET a  == Axes(fx_window)[AxisNames[j]]
                  zc == Get(fx_time.val, "zero_crossing_rate_" \o AxisNames[j])
              IN  /\ Len(a) = fx_window_size
                  /\ zc = Exact(Cardinality(SignChanges(a)))
                  /\ zc.value <= fx_window_size - 1
                  /\ StrictlyAlternating(a) => zc.value = fx_window_size - 1

\* a window of several samples with a strictly alternating axis, an axis
\* with some sign changes and an axis with none
C18_Witness ==
    /\ fx_time.exc = "none"
    /\ fx_window_size >= 4
    /\ StrictlyAlternating(Axes(fx_window).y)
    /\ Get(fx_time.val, "zero_crossing_rate_y").value = fx_window_size - 1
    /\ Get(fx_time.val, "zero_crossing_rate_z").value \in 1..(fx_window_size - 2)
    /\ Get(fx_time.val, "zero_crossing_rate_x").value = 0

\* the interior samples of a strictly greater than both neighbours
StrictMaxima(a) == {i \in 2..(Len(a) - 1) : Lt(a[i - 1], a[i]) /\ Lt(a[i + 1], a[i])}
StrictMinima(a) == {i \in 2..(Len(a) - 1) : Lt(a[i], a[i - 1]) /\ Lt(a[i], a[i + 1])}

\* C19: for every window and axis, num_peaks is the number of interior
\* samples strictly greater than both neighbours and num_troughs the number
\* strictly smaller than both: no endpoint and no flat run of equal samples
\* is counted.
C19_PeaksAreStrictInteriorExtrema ==
    fx_windowed # Pending =>
        /\ fx_windowed.exc = "none"
        /\ \A j \in 1..3 :
              LET a == Axes(fx_window)[AxisNames[j]]
              IN  /\ Get(fx_windowed.val, "num_peaks_" \o AxisNames[j])
                        = Exact(Cardinality(StrictMaxima(a)))
                  /\ Get(fx_windowed.val, "num_troughs_" \o AxisNames[j])
                        = Exact(Cardinality(StrictMinima(a)))

\* C20: with lambda = 1, leaky_integrator returns input[0] repeated n
\* times, for every input sequence of length n.
C20_LambdaOneHoldsTheFirstSample ==
    (li_lambda = FOne /\ li_out # Raise("pending")) =>
        /\ li_out.exc = "none"
        /\ li_out.val = [i \in 1..Len(li_signal) |-> ParseCell(li_signal[1])]

\* C21: a skip notice of the feature driver names the file it skips and
\* the required columns that file lacks, and no other column.
C21_SkipNoticeNamesTheMissingColumns ==
    \A i \in 1..Len(fconsole) :
        fconsole[i].tag = "skipped" =>
            \E w \in WalkedFiles :
                /\ fconsole[i].path = filepath(w.dirpath, w.file)
                /\ fconsole[i].columns = RequiredColumns \ w.file.cols

\* df with the acc samples of the rows outside keep replaced by others
Altered(df, keep) ==
    [df EXCEPT !.rows =
        [i \in 1..Len(df.rows) |->
            IF i \in keep THEN df.rows[i]
            ELSE [c \in DOMAIN df.rows[i] |->
                    IF c \in RequiredColumns THEN 4200 + 100 * (i % 3) ELSE df.rows[i][c]]]]

\* the rows of window k (from 1) of a recording
WindowRows(k, W) == ((k - 1) * W + 1)..(k * W)

\* C22: feature row k of a recording is computed from the samples of
\* window k alone: other samples of the recording may change, the discarded
\* remainder included, and row k stays; with only the remainder changed the
\* whole table stays.
C22_RowDependsOnlyOnItsWindow ==
    fx_table.exc = "none" =>
        \E df \in {read_csv(fx_file)} :
            LET W == fx_window_size
                count == Len(fx_table.val.rows)
            IN  /\ count = Len(df.rows) \div W
                /\ \A k \in 1..count :
                      /\ Return(fx_table.val.rows[k])
                            = extract_features_from_window(iloc(df.rows, (k - 1) * W, k * W))
                      /\ extract_features_from_dataframe(Altered(df, WindowRows(k, W)), W)
                            .val.rows[k] = fx_table.val.rows[k]
                /\ extract_features_from_dataframe(Altered(df, 1..(count * W)), W)
                      = fx_table

\* a table of several rows from a recording with a remainder
C22_Witness ==
    /\ fx_table.exc = "none"
    /\ Len(fx_table.val.rows) >= 2
    /\ fx_file.n % fx_window_size # 0
    /\ fx_table.val.rows[1] # fx_table.val.rows[2]

\* C23: a run of the feature driver ends, whatever the outcomes of its
\* files; no .csv file is attempted twice, and at the end each has been
\* attempted once.
C23_EveryFileAttemptedOnceThenDone ==
    /\ [](\A w \in WalkedFiles :
             endswith_csv(w.file.name) =>
                 /\ Mentions(fconsole, {"processing"}, filepath(w.dirpath, w.file)) <= 1
                 /\ fpc = "done" =>
                       Mentions(fconsole, {"processing"}, filepath(w.dirpath, w.file)) = 1)
    /\ <>(fpc = "done")

\* the run has ended after a file failed and a later one was attempted
C23_Witness ==
    /\ fpc = "done"
    /\ \E i, j \in 1..Len(fconsole) :
          /\ i < j
          /\ fconsole[i].tag = "error"
          /\ fconsole[j].tag = "processing"

\* the walked files that are outputs of the earlier run
WalkedOutputs == {w \in WalkedFiles : InOutputTree(w.dirpath)}

\* C24: in a repeated run with the output root inside the input root, no
\* output is derived from an output: the feature driver writes nothing for
\* an output file it meets and prints a skip or an error for it, the
\* normalizer never reads below preprocessed_data, and the set of output
\* paths stays what the earlier run left.
C24_NoOutputFromAnOutput ==
    /\ \A w \in WalkedOutputs :
          /\ save_path(w.dirpath, w.file) \notin Paths(fwritten)
          /\ \A i \in 1..Len(fconsole) :
                fconsole[i] = [tag |-> "processing", msg |-> "",
                               path |-> filepath(w.dirpath, w.file)] =>
                    /\ i < Len(fconsole)
                    /\ fconsole[i + 1].tag \in {"skipped", "error"}
                    /\ fconsole[i + 1].path = fconsole[i].path
    /\ Paths(fwritten) = {filepath(w.dirpath, w.file) : w \in WalkedOutputs}
    /\ \A i \in 1..Len(console) :
          SubSeq(console[i].path.dir, 1, Len(OUTPUT_DIR)) # OUTPUT_DIR
    /\ Paths(written) = Paths(NormLeftovers(listing))

\* the feature driver has ended after meeting an output with rows, which it
\* skipped, and an empty output, which failed to parse
C24_Witness ==
    /\ fpc = "done"
    /\ \E v, w \in WalkedOutputs :
          /\ w.file.cols # {}
          /\ v.file.cols = {}
          /\ \E i, j \in 1..Len(fconsole) :
                /\ fconsole[i] = [tag |-> "error", path |-> filepath(v.dirpath, v.file),
                                  msg |-> "ValueError"]
                /\ fconsole[j].tag = "skipped"
                /\ fconsole[j].path = filepath(w.dirpath, w.file)

\* C25: in the recording explorer, whatever the user does, data_files is empty with
\* current_index = -1 or current_index is a valid index of data_files; and a
\* path leaves the list of the folder on display only in a step that deleted
\* its file from disk
IndexInRange ==
    \/ data_files = <<>> /\ current_index = -1
    \/ 0 <= current_index /\ current_index < Len(data_files)
LastStart(log) ==
    IF \E i \in 1..Len(log) : log[i].op = "start"
    THEN CHOOSE i \in 1..Len(log) :
            /\ log[i].op = "start"
            /\ \A j \in (i + 1)..Len(log) : log[j].op # "start"
    ELSE 0
SessionSamples(log) ==
    IF LastStart(log) = 0 THEN <<>>
    ELSE SelectSeq([k \in 1..(Len(log) - LastStart(log)) |->
                       [e |-> log[LastStart(log) + k],
                        open |-> \A j \in (LastStart(log) + 1)..(LastStart(log) + k) :
                                    log[j].op # "stop"]],
                   LAMBDA x : x.open /\ x.e.op = "data")
StoredValues(entry) ==
    IF app = "main.py" THEN SubSeq(entry, 2, 7)
    ELSE <<entry.accel_x, entry.accel_y, entry.accel_z, entry.gyro_x, entry.gyro_y, entry.gyro_z>>
C26_BufferIsTheCurrentSession ==
    /\ Len(data_buffer) = Len(SessionSamples(events))
    /\ \A k \in 1..Len(data_buffer) :
          StoredValues(data_buffer[k]) = SubSeq(SessionSamples(events)[k].e.data, 1, 6)
    /\ app = "main.py" => \A k \in 1..Len(data_buffer) :
          data_buffer[k][8] = SessionSamples(events)[k].e.data[7]
\* a second recording holds its one sample although samples came before it,
\* in the first recording and between the two
C26_Witness ==
    /\ recording
    /\ Len(data_buffer) = 1
    /\ Len(events) = MaxEvents
    /\ events[1].op = "start"
    /\ events[2].op = "data"
    /\ events[3].op = "stop"
    /\ events[4].op = "start"
    /\ events[5].op = "data" /\ events[5].data # events[2].data

\* C28: in main2.py a press of Stop during a recording leaves the stop button
\* disabled and the start button and the three inputs enabled, with or
\* without samples
C28_StopReturnsTheControlsToIdle ==
    [][(app = "main2.py" /\ recording /\ ~recording')
          => (~stop_button' /\ start_button' /\ inputs' = AllInputs(TRUE))]_vars

\* C27: in main.py, whenever the window waits for the user, connect_button
\* reads "Disconnect" exactly when serial_thread.serial_port is not None
C27_ButtonAgreesWithThePort ==
    (app = "main.py" /\ gpc = "idle")
        => (connect_button = "Disconnect" <=> serial_port # "None")

\* C29: with a device whose reads never fail, the thread of either app never
\* emits an error, however a disconnect interleaves with run()
C29_DisconnectNeverReportsAnError ==
    device = "healthy" => \A i \in 1..Len(queue) : queue[i] = "data"

====
